---- MODULE Spec2Model ----
(***************************************************************************)
(* Model of the grok2api gateway core:                                     *)
(*   - app/core/retry.py        async_request_with_retry (two-layer retry) *)
(*   - app/services/grok/client.py   GrokClient._request / do_request /    *)
(*                                   _handle_error / _nsfw_retry_stream    *)
(*   - app/services/grok/processer.py  GrokResponseProcessor.process_stream*)
(*                                                                         *)
(* Spec / FairSpec : one invocation of GrokClient._request, i.e. one run   *)
(*                   of async_request_with_retry around do_request.        *)
(* SpecStream      : one streaming response as seen by the caller of       *)
(*                   _nsfw_retry_stream (engine, moderation splice).       *)
(***************************************************************************)
EXTENDS Integers, Sequences, FiniteSets, TLC

VARIABLES
    \* ---- async_request_with_retry: parameters
    max_outer_retry,          \* retry.py:14
    max_403_retries,          \* retry.py:15
    use_proxy_pool_for_403,   \* retry.py:17
    proxy_pool_enabled,       \* proxy_pool._enabled (collaborator state)
    stream,                   \* client.py:243  _request(..., stream, ...)
    \* ---- async_request_with_retry: locals
    pc,                       \* "attempt" | "done" | "finished" | "idle"
    outer_retry,              \* retry.py:50
    retry_403_count,          \* retry.py:51
    last_result,              \* retry.py:48
    \* ---- observation of one executor invocation
    calls,                    \* number of request_func invocations
    sleeps,                   \* number of asyncio.sleep calls
    lastSleep,                \* duration of the latest sleep, in tenths of a second
    sleptSince,               \* a sleep happened after the latest attempt
    lastAttempt,              \* retry_info, proxy source, upstream and outcome of the latest attempt
    seen,                     \* classes of outcome produced so far
    execOutcome,              \* how async_request_with_retry ended
    reqOutcome,               \* how GrokClient._request ended
    \* ---- process_stream: configuration and locals (processer.py:144-152)
    show_thinking,
    is_image,
    is_thinking,
    thinking_finished,
    video_progress_started,
    last_video_progress,
    \* ---- one streaming response
    profile,                  \* which family of envelopes the upstream sends
    spc,                      \* engine: "idle" | "running" | "returned" | "raised"
    eng,                      \* 1: the engine _retry created, 2: the re-issued one
    lines,                    \* envelopes the current engine has read
    nread,                    \* upstream lines read by both engines
    engineOut,                \* chunks the current engine has yielded
    firstOut,                 \* chunks the first engine had yielded when it raised
    callerOut,                \* chunks the caller of _nsfw_retry_stream received
    callerExc,                \* exception the caller received, "" if none
    now,                      \* asyncio.get_event_loop().time(), Unobserved if not followed
    timeout_mgr,              \* processer.py:155  StreamTimeoutManager
    response_closes,          \* calls of response.close(), per engine
    session_closes,           \* calls of session.close(), per engine
    \* ---- _nsfw_retry_stream (client.py:327-340)
    wphase,                   \* "first" | "second" | "idle"
    token,
    payload,
    enableCalls,              \* credentials _auto_enable_nsfw was called with
    reissued,                 \* the _request calls made by the recovery
    \* ---- GrokClient._retry (client.py:64-124) and the process it runs in
    auto_nsfw,                \* setting.grok_config.get("auto_nsfw", False)
    nsfw_enabled_tokens,      \* client.py:32  GrokClient._nsfw_enabled_tokens
    attempt_i,                \* client.py:69  i
    force_token,              \* client.py:67  "" stands for None
    last_err,                 \* client.py:66  "" stands for None
    opc,                      \* "attempt" | "streaming" | "done" | "idle"
    requests,                 \* calls of _retry made in this process so far
    attempts,                 \* the attempts of the current call of _retry
    orchOutcome,              \* how the current call of _retry ended
    \* ---- GrokResponseProcessor.process_normal (processer.py:70-138)
    normal_lines,             \* kinds of the lines read so far
    npc,                      \* "running" | "returned" | "raised" | "cancelled" | "idle"
    response_closed,          \* processer.py:72
    normal_closes,            \* calls of response.close()
    close_raises,             \* response.close() raises when called
    normalOutcome,            \* the result, or the error code raised
    \* ---- gRPC-Web codec (nsfw.py:21-67)
    cpc,                      \* "start" | "encoded" | "parsed" | "done" | "idle"
    codec_in,                 \* what the buffer was built from
    grpc_body,                \* nsfw.py:30  body, the byte buffer
    parsed,                   \* result of _parse_grpc_web_response
    grpc,                     \* result of _get_grpc_status
    \* ---- chat_completions admission gate (chat.py:23-78)
    chat_semaphore,           \* chat.py:23  _chat_semaphore, NoSemaphore stands for None
    max_request_concurrency,  \* setting.global_config["max_request_concurrency"]
    chat,                     \* the chat requests: where each one is
    resets,                   \* calls of reset_chat_semaphore so far
    \* ---- GrokClient._upload (client.py:166-188)
    upc,                      \* "gathering" | "returned" | "raised" | "idle"
    upload_urls,              \* client.py:167  urls
    uploads,                  \* the upload_limited coroutines: where each one is
    upload_sem,               \* free slots of GrokClient._upload_sem
    finished,                 \* the uploads in the order they finished
    upload_out,               \* what _upload returned
    \* ---- process_stream, the image loop (processer.py:252-291)
    ipc,                      \* "loop" | "returned" | "idle"
    image_mode,               \* processer.py:253
    image_urls,               \* processer.py:256  generatedImageUrls, with what each download does
    img_k,                    \* images the loop is done with
    img_content,              \* processer.py:254  content: the references appended so far
    image_out,                \* the chunks yielded so far
    \* ---- GrokClient._request and the tasks it launches (client.py:243-323, 387-388)
    rpc,                      \* "attempt" | "done" | "finished" | "idle"
    tattempts,                \* calls of do_request so far
    tasks,                    \* the tasks created so far: where each one is
    tres,                     \* what the executor handed back to _request
    tout,                     \* what the caller of _request received
    \* ---- concurrent calls of GrokClient._retry (client.py:71-82)
    retries,                  \* the calls: where each one is, and its credential
    proactive_calls,          \* credentials line 79 called _auto_enable_nsfw with
    \* ---- _auto_enable_nsfw after a moderated attempt (client.py:102-108, 343-357)
    nsfw_pc,                  \* "moderated" | "request" | "executed" | "after" | "retry" | "exhausted" | "retried" | "idle"
    nsfw_token,               \* the credential of the moderated attempt
    nsfw_tries,               \* calls of the do_request of nsfw.py:111 so far
    nsfw_exec,                \* what the executor handed back to _call_nsfw_api
    enable_result,            \* how enable_nsfw and _auto_enable_nsfw ended
    \* ---- the sessions of GrokClient._request.do_request (client.py:251-301)
    session_pc,               \* "attempt" | "streaming" | "ended" | "idle"
    sessions                  \* one per call of do_request: its upstream and its close() calls

execVars == << max_outer_retry, max_403_retries, use_proxy_pool_for_403,
               proxy_pool_enabled, stream, pc, outer_retry, retry_403_count,
               last_result, calls, sleeps, lastSleep, sleptSince, lastAttempt,
               seen, execOutcome, reqOutcome >>

streamVars == << show_thinking, is_image, is_thinking, thinking_finished,
                 video_progress_started, last_video_progress, profile, spc, eng,
                 lines, nread, engineOut, firstOut, callerOut, callerExc, now,
                 timeout_mgr, response_closes, session_closes, wphase,
                 token, payload, enableCalls, reissued >>

orchVars == << auto_nsfw, nsfw_enabled_tokens, attempt_i, force_token, last_err,
               opc, requests, attempts, orchOutcome >>

normalVars == << normal_lines, npc, response_closed, normal_closes, close_raises,
                 normalOutcome >>

codecVars == << cpc, codec_in, grpc_body, parsed, grpc >>

gateVars == << chat_semaphore, max_request_concurrency, chat, resets >>

uploadVars == << upc, upload_urls, uploads, upload_sem, finished, upload_out >>

imageVars == << ipc, image_mode, image_urls, img_k, img_content, image_out >>

taskVars == << rpc, tattempts, tasks, tres, tout >>

\* the variables of the parts modelled on their own
proactiveVars == << retries, proactive_calls >>
enableVars == << nsfw_pc, nsfw_token, nsfw_tries, nsfw_exec, enable_result >>
sessionVars == << session_pc, sessions >>
lateVars == << proactiveVars, enableVars, sessionVars >>

sideVars == << uploadVars, imageVars, taskVars, lateVars >>

\* everything but the variables of _upload, and of the image loop
uploadRest == << execVars, streamVars, orchVars, normalVars, codecVars, gateVars, imageVars,
                taskVars, lateVars >>
imageRest == << execVars, streamVars, orchVars, normalVars, codecVars, gateVars, uploadVars,
               taskVars, lateVars >>
taskRest == << execVars, streamVars, orchVars, normalVars, codecVars, gateVars, uploadVars,
              imageVars, lateVars >>

extVars == << orchVars, normalVars, codecVars, gateVars, sideVars >>

vars == << execVars, streamVars, extVars >>

(***************************************************************************)
(* Bounds of the model and program constants                               *)
(***************************************************************************)
\* largest max_outer_retry / max_403_retries a caller passes in the model,
\* besides the defaults
MaxOuterBound == 2
Max403Bound == 2

\* defaults of async_request_with_retry, the values _request runs with
DefaultMaxOuterRetry == 3
DefaultMax403Retries == 5

\* the policies explored: small ones and the defaults
OuterChoices == 0..MaxOuterBound \cup {DefaultMaxOuterRetry}
Inner403Choices == 0..Max403Bound \cup {DefaultMax403Retries}

\* asyncio.sleep durations, in tenths of a second
Backoff403 == 5
BackoffException == 5

\* setting.grok_config.get("retry_status_codes", [401, 429])
retry_codes == {401, 429}

\* HTTP statuses the upstream answers with in the model
Statuses == {200, 400, 403, 429}

\* what the body of an upstream response carries
Bodies == {"ok", "moderated", "api_error"}

None == [kind |-> "none", status_code |-> 0, val |-> "", err |-> "", body |-> "", id |-> 0]

(***************************************************************************)
(* Upstream behaviour of one attempt: an HTTP response, or a failure of    *)
(* session.post (a curl RequestsError, or any other exception).            *)
(***************************************************************************)
Upstreams ==
    [t : {"resp"}, status : {200}, body : Bodies, err : {""}]
      \cup [t : {"resp"}, status : Statuses \ {200}, body : {"ok", "moderated"}, err : {""}]
      \cup [t : {"fail"}, status : {0}, body : {""}, err : {"RequestsError", "OtherError"}]

\* outcomes of request_func
Value(v, n) == [kind |-> "value", status_code |-> 0, val |-> v, err |-> "", body |-> "", id |-> n]
Status(s, b, n) == [kind |-> "status", status_code |-> s, val |-> "", err |-> "", body |-> b, id |-> n]
Raise(e, n) == [kind |-> "raise", status_code |-> 0, val |-> "", err |-> e, body |-> "", id |-> n]

\* GrokResponseProcessor.process_normal seen from do_request: a result, or a
\* GrokApiException carrying an error code
process_normal(body) ==
    CASE body = "moderated" -> "CONTENT_MODERATED"
      [] body = "api_error" -> "API_ERROR"
      [] OTHER -> "RESULT"

\* error codes of GrokApiException (business exceptions)
BusinessErrors == {"NETWORK_ERROR", "API_ERROR", "MODEL_ERROR", "CONTENT_MODERATED",
                   "HTTP_ERROR", "MAX_RETRIES_EXCEEDED", "NO_AUTH_TOKEN"}

\* do_request without the content-moderation marker of client.py:293-295: the
\* exception is raised like any other business exception
do_request_RaisesModerated(u, n) ==
    IF u.t = "fail"
    THEN IF u.err = "RequestsError" THEN Raise("NETWORK_ERROR", n) ELSE Raise(u.err, n)
    ELSE IF u.status # 200
         THEN Status(u.status, u.body, n)
         ELSE IF stream
              THEN Value("SUCCESS", n)
              ELSE LET r == process_normal(u.body) IN
                   IF r = "RESULT" THEN Value("SUCCESS", n) ELSE Raise(r, n)

\* GrokClient._request.do_request: the n-th attempt against upstream behaviour u
do_request(u, n) ==
    IF u.t = "fail"
    THEN IF u.err = "RequestsError" THEN Raise("NETWORK_ERROR", n) ELSE Raise(u.err, n)
    ELSE IF u.status # 200
         THEN Status(u.status, u.body, n)
         ELSE IF stream
              THEN Value("SUCCESS", n)
              ELSE LET r == process_normal(u.body) IN
                   IF r = "RESULT" THEN Value("SUCCESS", n)
                   ELSE IF r = "CONTENT_MODERATED"
                        THEN Value("content_moderated", n)
                        ELSE Raise(r, n)

(***************************************************************************)
(* async_request_with_retry                                                *)
(***************************************************************************)
\* ProxySource that also refreshes on the first attempt of a later outer
\* iteration
ProxySource_AfterFirstOuter ==
    IF (retry_403_count > 0 \/ outer_retry > 0) /\ use_proxy_pool_for_403 /\ proxy_pool_enabled
    THEN "force_refresh" ELSE "get_proxy"

\* retry.py:55  which proxy the attempt about to be made uses
ProxySource ==
    IF retry_403_count > 0 /\ use_proxy_pool_for_403 /\ proxy_pool_enabled
    THEN "force_refresh" ELSE "get_proxy"

\* retry.py:86  a 403 that the inner loop retries
Is403Retry(r) ==
    r.kind = "status" /\ r.status_code = 403 /\ use_proxy_pool_for_403 /\ proxy_pool_enabled

\* IsRetryable without the membership test: every other status is retried
IsRetryable_AnyStatus(r) == r.kind = "status" /\ ~Is403Retry(r)

\* retry.py:97
IsRetryable(r) == r.kind = "status" /\ ~Is403Retry(r) /\ r.status_code \in retry_codes

\* ExceptionBudgetLeft of an executor that never retries an exception
ExceptionBudgetLeft_Never == FALSE

\* retry.py:70  an exception is retried by the outer loop
ExceptionBudgetLeft == outer_retry < max_outer_retry - 1

\* OuterBudgetLeft that gives up the backoff one iteration early
OuterBudgetLeft_OneLess == outer_retry < max_outer_retry - 1

\* retry.py:98  a retryable status is retried by the outer loop
OuterBudgetLeft == outer_retry < max_outer_retry

\* Inner403BudgetLeft off by one, either way
Inner403BudgetLeft_OneLess == retry_403_count + 1 < max_403_retries
Inner403BudgetLeft_OneMore == retry_403_count <= max_403_retries

\* retry.py:87-88  the inner loop retries the 403 just received
Inner403BudgetLeft == retry_403_count + 1 <= max_403_retries

\* class of an outcome: its kind and, for a structured outcome, its status
Tag(r) == [kind |-> r.kind, status_code |-> r.status_code]

\* HeadersToken of a do_request that asks the token provider on every call
\* after the first
HeadersToken_Refetched ==
    IF calls > 0 THEN CHOOSE t \in {"tokenA", "tokenB"} : t # token ELSE token

\* client.py:254  _build_headers(token): do_request is a closure over the
\* token parameter of _request
HeadersToken == token

\* bookkeeping of one call of request_func
Called(u, r) ==
    /\ calls' = calls + 1
    /\ lastAttempt' = [outer |-> outer_retry, inner |-> retry_403_count,
                       proxy |-> ProxySource, token |-> HeadersToken, up |-> u,
                       result |-> r]
    /\ seen' = seen \cup {Tag(r)}

Sleep(d) == /\ sleeps' = sleeps + 1
            /\ lastSleep' = d
            /\ sleptSince' = TRUE

NoSleep == /\ sleptSince' = FALSE
           /\ UNCHANGED << sleeps, lastSleep >>

\* retry.py:81,110  return result
Return(r) == /\ pc' = "done"
             /\ execOutcome' = [how |-> "return", via |-> "result", r |-> r]

\* retry.py:117  return last_result
ReturnLast(lr) == /\ pc' = "done"
                  /\ execOutcome' = [how |-> "return", via |-> "last_result", r |-> lr]

\* BreakInner that remembers the first outcome only ("last_result or result")
BreakInner_KeepFirst(lr) ==
    /\ last_result' = (IF last_result = None THEN lr ELSE last_result)
    /\ IF outer_retry + 1 <= max_outer_retry
       THEN /\ outer_retry' = outer_retry + 1
            /\ retry_403_count' = 0
            /\ pc' = "attempt"
            /\ UNCHANGED execOutcome
       ELSE /\ UNCHANGED << outer_retry, retry_403_count >>
            /\ ReturnLast(IF last_result = None THEN lr ELSE last_result)

\* break out of the inner loop with last_result = lr (retry.py:73,94,103,107):
\* the outer for loop goes on, or ends and line 117 returns last_result
BreakInner(lr) ==
    /\ last_result' = lr
    /\ IF outer_retry + 1 <= max_outer_retry
       THEN /\ outer_retry' = outer_retry + 1
            /\ retry_403_count' = 0
            /\ pc' = "attempt"
            /\ UNCHANGED execOutcome
       ELSE /\ UNCHANGED << outer_retry, retry_403_count >>
            /\ ReturnLast(lr)

\* retry.py:68-74  request_func raises
AttemptRaises ==
    /\ UNCHANGED << streamVars, extVars >>
    /\ pc = "attempt"
    /\ \E u \in Upstreams :
         LET r == do_request(u, calls + 1) IN
         /\ r.kind = "raise"
         /\ Called(u, r)
         /\ IF ExceptionBudgetLeft
            THEN /\ Sleep(BackoffException)
                 /\ BreakInner(last_result)
            ELSE /\ NoSleep
                 /\ pc' = "done"
                 /\ execOutcome' = [how |-> "raise", via |-> "raise", r |-> r]
                 /\ UNCHANGED << outer_retry, retry_403_count, last_result >>
    /\ UNCHANGED << max_outer_retry, max_403_retries, use_proxy_pool_for_403,
                    proxy_pool_enabled, stream, reqOutcome >>

\* retry.py:77-81  not a dict with "status_code": success
AttemptSucceeds ==
    /\ UNCHANGED << streamVars, extVars >>
    /\ pc = "attempt"
    /\ \E u \in Upstreams :
         LET r == do_request(u, calls + 1) IN
         /\ r.kind = "value"
         /\ Called(u, r)
         /\ NoSleep
         /\ Return(r)
    /\ UNCHANGED << max_outer_retry, max_403_retries, use_proxy_pool_for_403,
                    proxy_pool_enabled, stream, outer_retry, retry_403_count,
                    last_result, reqOutcome >>

\* retry.py:86-94  inner 403 retry
Attempt403 ==
    /\ UNCHANGED << streamVars, extVars >>
    /\ pc = "attempt"
    /\ \E u \in Upstreams :
         LET r == do_request(u, calls + 1) IN
         /\ Is403Retry(r)
         /\ Called(u, r)
         /\ IF Inner403BudgetLeft
            THEN /\ retry_403_count' = retry_403_count + 1
                 /\ Sleep(Backoff403)
                 /\ UNCHANGED << pc, outer_retry, last_result, execOutcome >>
            ELSE /\ NoSleep
                 /\ BreakInner(r)
    /\ UNCHANGED << max_outer_retry, max_403_retries, use_proxy_pool_for_403,
                    proxy_pool_enabled, stream, reqOutcome >>

\* retry.py:97-107  outer retry on a configured status code
AttemptRetryable ==
    /\ UNCHANGED << streamVars, extVars >>
    /\ pc = "attempt"
    /\ \E u \in Upstreams :
         LET r == do_request(u, calls + 1) IN
         /\ IsRetryable(r)
         /\ Called(u, r)
         /\ IF OuterBudgetLeft
            THEN Sleep(outer_retry + 1)
            ELSE NoSleep
         /\ BreakInner(r)
    /\ UNCHANGED << max_outer_retry, max_403_retries, use_proxy_pool_for_403,
                    proxy_pool_enabled, stream, reqOutcome >>

\* retry.py:110  any other status is returned to the caller
AttemptNonRetryable ==
    /\ UNCHANGED << streamVars, extVars >>
    /\ pc = "attempt"
    /\ \E u \in Upstreams :
         LET r == do_request(u, calls + 1) IN
         /\ r.kind = "status" /\ ~Is403Retry(r) /\ ~IsRetryable(r)
         /\ Called(u, r)
         /\ NoSleep
         /\ Return(r)
    /\ UNCHANGED << max_outer_retry, max_403_retries, use_proxy_pool_for_403,
                    proxy_pool_enabled, stream, outer_retry, retry_403_count,
                    last_result, reqOutcome >>

(***************************************************************************)
(* GrokClient._request after the executor returned (client.py:303-323)     *)
(***************************************************************************)
\* GrokClient._handle_error: the GrokApiException raised for a non-200 response
_handle_error(r) ==
    IF r.status_code = 403
    THEN [how |-> "raise", err |-> "HTTP_ERROR", status |-> 403, id |-> r.id]
    ELSE [how |-> "raise",
          err |-> IF r.body = "moderated" THEN "CONTENT_MODERATED" ELSE "HTTP_ERROR",
          status |-> r.status_code, id |-> r.id]

\* client.py:303-323
RequestResult(eo) ==
    IF eo.how = "raise"
    THEN [how |-> "raise", err |-> eo.r.err, status |-> 0, id |-> eo.r.id]
    ELSE IF eo.r.kind = "value" /\ eo.r.val = "content_moderated"
         THEN [how |-> "raise", err |-> "CONTENT_MODERATED", status |-> 0, id |-> eo.r.id]
         ELSE IF eo.r.kind = "status"
              THEN _handle_error(eo.r)
              ELSE [how |-> IF stream THEN "stream" ELSE "result",
                    err |-> "", status |-> 0, id |-> eo.r.id]

NoOutcome == [how |-> "none", err |-> "", status |-> 0, id |-> 0]

RequestFinish ==
    /\ UNCHANGED << streamVars, extVars >>
    /\ pc = "done"
    /\ pc' = "finished"
    /\ reqOutcome' = RequestResult(execOutcome)
    /\ UNCHANGED << max_outer_retry, max_403_retries, use_proxy_pool_for_403,
                    proxy_pool_enabled, stream, outer_retry, retry_403_count,
                    last_result, calls, sleeps, lastSleep, sleptSince, lastAttempt,
                    seen, execOutcome >>

\* no call of _retry is in progress
OrchIdle ==
    /\ auto_nsfw = FALSE
    /\ nsfw_enabled_tokens = {}
    /\ attempt_i = 0
    /\ force_token = ""
    /\ last_err = ""
    /\ opc = "idle"
    /\ requests = 0
    /\ attempts = << >>
    /\ orchOutcome = NoOutcome

\* process_normal is not running
NormalIdle ==
    /\ normal_lines = << >>
    /\ npc = "idle"
    /\ response_closed = FALSE
    /\ normal_closes = 0
    /\ close_raises = FALSE
    /\ normalOutcome = ""

\* no buffer is being encoded or decoded
CodecIdle ==
    /\ cpc = "idle"
    /\ codec_in = << >>
    /\ grpc_body = << >>
    /\ parsed = << >>
    /\ grpc = << >>

\* chat.py:23  _chat_semaphore = None
NoSemaphore == [id |-> 0, value |-> 0, max |-> 0]

\* no chat request has arrived
GateIdle ==
    /\ chat_semaphore = NoSemaphore
    /\ max_request_concurrency = 0
    /\ chat = << >>
    /\ resets = 0

\* _upload is not running
NoUploadResult == [ids |-> << >>, uris |-> << >>]
UploadIdle ==
    /\ upc = "idle"
    /\ upload_urls = << >>
    /\ uploads = << >>
    /\ upload_sem = 0
    /\ finished = << >>
    /\ upload_out = NoUploadResult

\* the image loop is not running
ImageIdle ==
    /\ ipc = "idle"
    /\ image_mode = "url"
    /\ image_urls = << >>
    /\ img_k = 0
    /\ img_content = << >>
    /\ image_out = << >>

\* no request is under way and no task was created
TaskIdle ==
    /\ rpc = "idle"
    /\ tattempts = 0
    /\ tasks = << >>
    /\ tres = [how |-> "none", via |-> "", r |-> None]
    /\ tout = NoOutcome

\* the helpers of the request path are at rest
\* no concurrent call of _retry is followed
ProactiveIdle ==
    /\ retries = << >>
    /\ proactive_calls = << >>

\* enable_nsfw has not been called
NoEnableResult == [enable |-> "none", success |-> FALSE, auto |-> "none"]

\* no enabling of the permissive mode is followed
EnableIdle ==
    /\ nsfw_pc = "idle"
    /\ nsfw_token = ""
    /\ nsfw_tries = 0
    /\ nsfw_exec = [how |-> "none", via |-> "", r |-> None]
    /\ enable_result = NoEnableResult

\* no session is followed
SessionIdle ==
    /\ session_pc = "idle"
    /\ sessions = << >>

LateIdle == ProactiveIdle /\ EnableIdle /\ SessionIdle

SideIdle == UploadIdle /\ ImageIdle /\ TaskIdle /\ LateIdle

\* the parts of the gateway outside the invocation under study are at rest
ExtIdle ==
    /\ SideIdle
    /\ OrchIdle
    /\ NormalIdle
    /\ CodecIdle
    /\ GateIdle

\* the clock is not followed: any amount of time may pass between two lines
Unobserved == -1

\* processer.py:27-33  StreamTimeoutManager.__init__ at time t
StreamTimeoutManager(chunk_timeout, first_timeout, total_timeout, t) ==
    [chunk_timeout |-> chunk_timeout, first_timeout |-> first_timeout,
     total_timeout |-> total_timeout, start_time |-> t, last_chunk_time |-> t,
     first_received |-> FALSE]

\* no response and no session has been closed
NoCloses == [e \in {1, 2} |-> 0]

\* no streaming response is in progress
StreamIdle ==
    /\ show_thinking = TRUE
    /\ is_image = FALSE
    /\ is_thinking = FALSE
    /\ thinking_finished = FALSE
    /\ video_progress_started = FALSE
    /\ last_video_progress = -1
    /\ profile = ""
    /\ spc = "idle"
    /\ eng = 0
    /\ lines = << >>
    /\ nread = 0
    /\ engineOut = << >>
    /\ firstOut = << >>
    /\ callerOut = << >>
    /\ callerExc = ""
    /\ now = Unobserved
    /\ timeout_mgr = StreamTimeoutManager(0, 0, 0, Unobserved)
    /\ response_closes = NoCloses
    /\ session_closes = NoCloses
    /\ wphase = "idle"
    /\ token = ""
    /\ payload = ""
    /\ enableCalls = << >>
    /\ reissued = << >>

NoAttempt == [outer |-> 0, inner |-> 0, proxy |-> "", token |-> "",
              up |-> [t |-> "", status |-> 0, body |-> "", err |-> ""], result |-> None]

Init ==
    /\ max_outer_retry \in OuterChoices
    /\ max_403_retries \in Inner403Choices
    /\ use_proxy_pool_for_403 \in BOOLEAN
    /\ proxy_pool_enabled \in BOOLEAN
    /\ stream \in BOOLEAN
    /\ pc = "attempt"
    /\ outer_retry = 0
    /\ retry_403_count = 0
    /\ last_result = None
    /\ calls = 0
    /\ sleeps = 0
    /\ lastSleep = 0
    /\ sleptSince = FALSE
    /\ lastAttempt = NoAttempt
    /\ seen = {}
    /\ execOutcome = [how |-> "none", via |-> "", r |-> None]
    /\ reqOutcome = NoOutcome
    /\ StreamIdle
    /\ ExtIdle

Next ==
    \/ AttemptRaises
    \/ AttemptSucceeds
    \/ Attempt403
    \/ AttemptRetryable
    \/ AttemptNonRetryable
    \/ RequestFinish

Spec == Init /\ [][Next]_vars

FairSpec == Spec /\ WF_vars(Next)

(***************************************************************************)
(* Claims about async_request_with_retry and GrokClient._request           *)
(***************************************************************************)
Done == pc \in {"done", "finished"}

DefaultPolicy == /\ max_outer_retry = DefaultMaxOuterRetry
                 /\ max_403_retries = DefaultMax403Retries

Rotation == use_proxy_pool_for_403 /\ proxy_pool_enabled

Only(kind, status) == seen = {[kind |-> kind, status_code |-> status]}

\* C1: with max_outer_retry = 3, max_403_retries = 5 and 403 rotation on, an
\* attempt function that returns 403 on every call is invoked exactly 24 times,
\* and the executor then returns a structured 403 outcome (it does not raise).
C1_Always403Calls24 ==
    (DefaultPolicy /\ Rotation /\ Only("status", 403)) =>
        /\ calls <= 24
        /\ Done => /\ calls = 24
                   /\ calls = (DefaultMaxOuterRetry + 1) * (DefaultMax403Retries + 1)
                   /\ execOutcome.how = "return"
                   /\ execOutcome.r.kind = "status"
                   /\ execOutcome.r.status_code = 403
        /\ ~Done => calls < 24

C1_Witness ==
    /\ DefaultPolicy /\ Rotation /\ Only("status", 403)
    /\ pc = "done" /\ calls = 24
    /\ execOutcome.how = "return" /\ execOutcome.r.status_code = 403

\* C2: for every sequence of attempt outcomes and every max_outer_retry >= 0 and
\* max_403_retries >= 0, the number of calls of the attempt function never
\* exceeds (max_outer_retry + 1) * (max_403_retries + 1), and the invocation
\* terminates.
C2_BoundedAndTerminates ==
    /\ [](calls <= (max_outer_retry + 1) * (max_403_retries + 1))
    /\ <>Done

C2_Witness ==
    /\ Done
    /\ max_outer_retry > 0 /\ max_403_retries > 0
    /\ calls = (max_outer_retry + 1) * (max_403_retries + 1)

\* C3: an attempt that returns a structured outcome whose status is neither a
\* 403 under rotation nor in the retryable set ends the executor at once: that
\* same outcome is returned, no further attempt is made and no sleep follows
\* it; on the first call that is one attempt and zero sleeps.
C3_NonRetryableReturnsAtOnce ==
    LET r == lastAttempt.result IN
    (/\ r.kind = "status"
     /\ ~(r.status_code = 403 /\ Rotation)
     /\ r.status_code \notin retry_codes) =>
        /\ Done
        /\ execOutcome.how = "return"
        /\ execOutcome.r = r
        /\ r.id = calls
        /\ ~sleptSince
        /\ (r.id = 1 => (calls = 1 /\ sleeps = 0))

C3_Witness ==
    /\ pc = "done" /\ calls = 1 /\ sleeps = 0
    /\ lastAttempt.result.kind = "status" /\ lastAttempt.result.status_code = 400
    /\ execOutcome.r = lastAttempt.result

BusinessRaise(r) == r.kind = "raise" /\ r.err \in BusinessErrors

\* C4 as stated: when the attempt function raises a business exception the
\* executor makes no further attempt and the same exception reaches the caller;
\* an attempt function that raises it at once is invoked exactly once.
C4_BusinessExceptionNotRetried ==
    LET r == lastAttempt.result IN
    BusinessRaise(r) =>
        /\ Done
        /\ execOutcome.how = "raise"
        /\ execOutcome.r = r
        /\ (Only("raise", 0) => calls = 1)

\* C4 amended: a business exception is handled like any other exception.
\* Either the executor sleeps 0.5 and makes a further attempt in the next outer
\* iteration, or it makes no further attempt and that same exception reaches
\* the caller. It is retried whenever it is raised in the first outer iteration
\* with max_outer_retry >= 2, and it reaches the caller only from an outer
\* iteration >= max_outer_retry - 1. Whatever the executor raises is the
\* exception of its last attempt, unchanged.
C4_BusinessExceptionLikeAnyOther ==
    LET r == lastAttempt.result IN
    /\ BusinessRaise(r) =>
          \/ /\ pc = "attempt"
             /\ outer_retry = lastAttempt.outer + 1
             /\ retry_403_count = 0
             /\ sleptSince /\ lastSleep = BackoffException
          \/ /\ Done
             /\ execOutcome.how = "raise"
             /\ execOutcome.r = r
             /\ ~sleptSince
             /\ lastAttempt.outer >= max_outer_retry - 1
    /\ (BusinessRaise(r) /\ lastAttempt.outer = 0 /\ max_outer_retry >= 2) => pc = "attempt"
    /\ execOutcome.how = "raise" => (execOutcome.r = lastAttempt.result /\ r.id = calls)

C4_Witness ==
    /\ BusinessRaise(lastAttempt.result)
    /\ pc = "attempt" /\ calls = 1 /\ outer_retry = 1 /\ sleptSince

\* C5: when an attempt raises a non-business exception the executor sleeps 0.5
\* and moves to the next outer iteration whenever outer_retry < max_outer_retry,
\* and re-raises only when the outer budget is exhausted; an attempt function
\* that always raises is invoked exactly max_outer_retry + 1 times.
C5_ExceptionUsesWholeOuterBudget ==
    LET r == lastAttempt.result IN
    /\ (r.kind = "raise" /\ r.err \notin BusinessErrors) =>
          IF lastAttempt.outer < max_outer_retry
          THEN pc = "attempt" /\ sleptSince /\ lastSleep = BackoffException
          ELSE Done /\ execOutcome.how = "raise"
    /\ (Done /\ Only("raise", 0)) => calls = max_outer_retry + 1

Exhausted == Done /\ execOutcome.how = "return" /\ execOutcome.via = "last_result"

\* C6: when the executor returns because its retry budget is exhausted, the
\* value returned is the structured outcome of the last attempt it made: never
\* an empty value, never the outcome of an earlier attempt.
C6_ExhaustedReturnsLastOutcome ==
    /\ Exhausted =>
          /\ execOutcome.r # None
          /\ execOutcome.r.kind = "status"
          /\ execOutcome.r = lastAttempt.result
          /\ execOutcome.r.id = calls
    /\ (Done /\ execOutcome.how = "return" /\ execOutcome.via = "result") =>
          \/ execOutcome.r.kind = "value"
          \/ /\ execOutcome.r.kind = "status"
             /\ execOutcome.r.status_code \notin retry_codes
             /\ ~(execOutcome.r.status_code = 403 /\ Rotation)

\* exhaustion after a retryable status, then an exception, then 403s
C6_Witness ==
    /\ Exhausted
    /\ calls > 3
    /\ {[kind |-> "status", status_code |-> 403],
        [kind |-> "status", status_code |-> 429],
        [kind |-> "raise", status_code |-> 0]} \subseteq seen
    /\ execOutcome.r = lastAttempt.result

\* the upstream reports content moderation for the main call: an error frame
\* in a 200 body that the assembler reads, or the body of a non-200 response
Moderated200(u) == u.t = "resp" /\ u.status = 200 /\ u.body = "moderated" /\ ~stream
ModeratedNon200(u) == u.t = "resp" /\ u.status # 200 /\ u.body = "moderated"

RaisesModerated == reqOutcome.how = "raise" /\ reqOutcome.err = "CONTENT_MODERATED"

\* C7 as stated: whenever the upstream reports content moderation, the executor
\* performs no further attempt and the caller of _request receives
\* ContentModerated.
C7_ModerationNeverRetried ==
    (Moderated200(lastAttempt.up) \/ ModeratedNon200(lastAttempt.up)) =>
        /\ Done
        /\ pc = "finished" => RaisesModerated

\* C7 amended: moderation reported in a 200 body (non-streaming) ends the
\* executor at once, without a sleep, and _request raises ContentModerated.
\* Moderation reported in a non-200 body goes through the status-code
\* classification first; _request raises ContentModerated exactly when the
\* outcome the executor finally returns is a non-403 response whose body
\* reports moderation, and a 403 surfaces as HTTP_ERROR.
C7_ModerationFastPath ==
    /\ Moderated200(lastAttempt.up) =>
          /\ Done
          /\ execOutcome.how = "return"
          /\ execOutcome.r = lastAttempt.result
          /\ ~sleptSince
          /\ pc = "finished" => (RaisesModerated /\ reqOutcome.id = calls)
    /\ (ModeratedNon200(lastAttempt.up) /\ ~Done) =>
          \/ lastAttempt.up.status \in retry_codes
          \/ lastAttempt.up.status = 403 /\ Rotation
    /\ (pc = "finished" /\ execOutcome.how = "return" /\ execOutcome.r.kind = "status") =>
          /\ reqOutcome.how = "raise"
          /\ RaisesModerated <=>
                (execOutcome.r.status_code # 403 /\ execOutcome.r.body = "moderated")
          /\ ~RaisesModerated => reqOutcome.err = "HTTP_ERROR"

C7_Witness ==
    /\ pc = "finished"
    /\ Moderated200(lastAttempt.up)
    /\ calls = 1
    /\ RaisesModerated

(***************************************************************************)
(* Streaming: GrokResponseProcessor.process_stream wrapped by              *)
(* GrokClient._nsfw_retry_stream                                           *)
(***************************************************************************)
\* upstream lines read during one streaming response, by both engines: of a
\* conversation or image generation, and of a video generation
MaxLines == 4
MaxVideoLines == 5

\* the progress values the upstream reports in the model
ProgressValues == {10, 25, 30, 100}

Tokens == {"tokenA", "tokenB"}
Payloads == {"payload"}

\* one decoded upstream line (processer.py:193-248)
Env(kind, moderated, progress, url, imageInfo, modelResponse, tok, filtered, isThinking, header, card) ==
    [kind |-> kind, moderated |-> moderated, progress |-> progress, url |-> url,
     imageInfo |-> imageInfo, modelResponse |-> modelResponse, tok |-> tok,
     filtered |-> filtered, isThinking |-> isThinking, header |-> header,
     card |-> card]

Plain(kind) == Env(kind, FALSE, 0, FALSE, FALSE, FALSE, "empty", FALSE, FALSE, FALSE, "none")
ErrorEnv(moderated) == Env("error", moderated, 0, FALSE, FALSE, FALSE, "empty", FALSE, FALSE, FALSE, "none")
VideoEnv(p, url) == Env("video", FALSE, p, url, FALSE, FALSE, "empty", FALSE, FALSE, FALSE, "none")
TextEnv(thinking, header, filtered) ==
    Env("resp", FALSE, 0, FALSE, FALSE, FALSE, "text", filtered, thinking, header, "none")
CardEnv(thinking, card) ==
    Env("resp", FALSE, 0, FALSE, FALSE, FALSE, "empty", FALSE, thinking, FALSE, card)
ImageEnv(imageInfo, modelResponse, tok) ==
    Env("resp", FALSE, 0, FALSE, imageInfo, modelResponse, tok, FALSE, FALSE, FALSE, "none")

\* an envelope with imageAttachmentInfo whose modelResponse is not an object:
\* processer.py:256 raises AttributeError on it
BadImageEnv == [ImageEnv(TRUE, TRUE, "empty") EXCEPT !.kind = "raises"]

\* the check_timeout of processer.py:181 fired when this line arrived
TimeoutMark == Plain("timeout")

Thinking == TextEnv(TRUE, FALSE, FALSE)
Answer == TextEnv(FALSE, FALSE, FALSE)

Profiles == {"chat", "video", "image"}

\* the envelopes of each family of upstream conversation
EnvelopesOf(p) ==
    CASE p = "chat" ->
           {Thinking, Answer, TextEnv(TRUE, FALSE, TRUE), TextEnv(FALSE, TRUE, FALSE),
            CardEnv(TRUE, "search"), CardEnv(FALSE, "card"),
            ErrorEnv(TRUE)}
      [] p = "video" ->
           {VideoEnv(q, FALSE) : q \in ProgressValues} \cup {VideoEnv(100, TRUE)}
      [] p = "image" ->
           {ImageEnv(TRUE, FALSE, "text"), ImageEnv(FALSE, TRUE, "empty"), Answer, Thinking,
            TextEnv(FALSE, TRUE, TRUE), Plain("blank"), Plain("malformed"),
            ErrorEnv(FALSE), BadImageEnv}
      [] p = "timed" ->
           {Answer, Plain("blank"), Plain("noresp")}
      [] OTHER -> {}

LineBudget == IF profile = "video" THEN MaxVideoLines ELSE MaxLines

\* make_chunk (processer.py:161-176) and the terminal sentinel
Chunk(what, open, close, progress, thinking, finish) ==
    [eng |-> eng, line |-> Len(lines) + 1, t |-> "chunk", what |-> what,
     open |-> open, close |-> close, progress |-> progress, thinking |-> thinking,
     header |-> FALSE, finish |-> finish]

StopChunk == Chunk("", FALSE, FALSE, 0, FALSE, "stop")
DoneSentinel == [StopChunk EXCEPT !.t = "done", !.finish = ""]

\* Forward of a wrapper that yields every chunk of the engine twice
Forward_Twice(chunks) == chunks \o chunks

\* client.py:330-331 and 339-340: the wrapper yields what the engine yields
Forward(chunks) == chunks

Emit(chunks) ==
    /\ engineOut' = engineOut \o chunks
    /\ callerOut' = callerOut \o Forward(chunks)

\* processer.py:35-48  StreamTimeoutManager.check_timeout
check_timeout ==
    \/ ~timeout_mgr.first_received /\ now - timeout_mgr.start_time > timeout_mgr.first_timeout
    \/ timeout_mgr.total_timeout > 0 /\ now - timeout_mgr.start_time > timeout_mgr.total_timeout
    \/ timeout_mgr.first_received /\ now - timeout_mgr.last_chunk_time > timeout_mgr.chunk_timeout

\* processer.py:181-182  is_timeout when a line arrives; with the clock not
\* followed the line may have arrived before or after a timer expired
IsTimeout(env) ==
    IF now = Unobserved THEN env = TimeoutMark ELSE check_timeout

\* processer.py:50-53  StreamTimeoutManager.mark_received
mark_received ==
    [timeout_mgr EXCEPT !.last_chunk_time = now, !.first_received = TRUE]

\* processer.py:206-211  the line carries a response: the timers are reset
MarksReceived(env) == env.kind \in {"resp", "video", "raises"}

\* the engine reads one more line
Read(env) ==
    /\ spc = "running"
    /\ nread < LineBudget
    /\ IsTimeout(env) <=> env = TimeoutMark
    /\ lines' = Append(lines, env)
    /\ nread' = nread + 1
    /\ timeout_mgr' = IF MarksReceived(env) THEN mark_received ELSE timeout_mgr
    /\ UNCHANGED now

\* Finally of an engine whose exception unwind skips the release
Finally_NotOnRaise(how) ==
    IF how = "raised"
    THEN UNCHANGED << response_closes, session_closes >>
    ELSE /\ response_closes' = [response_closes EXCEPT ![eng] = @ + 1]
         /\ session_closes' = [session_closes EXCEPT ![eng] = @ + 1]

\* processer.py:373-386  the finally clause: response_closed is never set in
\* process_stream, and _request always passes the session
Finally(how) ==
    /\ response_closes' = [response_closes EXCEPT ![eng] = @ + 1]
    /\ session_closes' = [session_closes EXCEPT ![eng] = @ + 1]

wrapperVars == << wphase, token, payload, enableCalls, reissued, firstOut, eng >>
thinkVars == << is_thinking, thinking_finished >>
videoVars == << video_progress_started, last_video_progress >>
timerVars == << now, timeout_mgr >>
resourceVars == << response_closes, session_closes >>

\* processer.py:181-186  a line arrives after one of the timers expired
LineTimeout ==
    /\ UNCHANGED << execVars, extVars >>
    /\ Read(TimeoutMark)
    /\ Emit(<< StopChunk, DoneSentinel >>)
    /\ spc' = "returned"
    /\ Finally("returned")
    /\ UNCHANGED << show_thinking, profile, is_image, thinkVars, videoVars,
                    wrapperVars, callerExc >>

\* processer.py:189-190, 208-209, 356-361  blank line, line that does not
\* parse, envelope without a response
LineSkipped ==
    /\ UNCHANGED << execVars, extVars >>
    /\ \E env \in EnvelopesOf(profile) :
         /\ env.kind \in {"blank", "malformed", "noresp"}
         /\ Read(env)
    /\ UNCHANGED << show_thinking, profile, is_image, thinkVars, videoVars,
                    wrapperVars, spc, engineOut, callerOut, callerExc, resourceVars >>

\* ImageFlagAfter of an engine that looks at the envelope in hand only
ImageFlagAfter_NoLatch(env) == env.imageInfo

\* processer.py:245-246  the image flag is set before the rest of the envelope
\* is looked at
ImageFlagAfter(env) == is_image \/ env.imageInfo

\* processer.py:245-256, 359-361  processing the envelope raises an exception
\* that is not a GrokApiException: it is logged and the next line is read
LineRaises ==
    /\ UNCHANGED << execVars, extVars >>
    /\ \E env \in EnvelopesOf(profile) :
         /\ env.kind = "raises"
         /\ Read(env)
         /\ is_image' = ImageFlagAfter(env)
    /\ UNCHANGED << show_thinking, profile, thinkVars, videoVars, wrapperVars, spc,
                    engineOut, callerOut, callerExc, resourceVars >>

\* processer.py:196-204  error frame
LineError ==
    /\ UNCHANGED << execVars, extVars >>
    /\ \E env \in EnvelopesOf(profile) :
         /\ env.kind = "error"
         /\ Read(env)
         /\ IF env.moderated
            THEN /\ spc' = "raised"
                 /\ Finally("raised")
                 \* the second loop of _nsfw_retry_stream has no handler
                 /\ callerExc' = IF wphase = "second" THEN "CONTENT_MODERATED" ELSE callerExc
                 /\ UNCHANGED << engineOut, callerOut >>
            ELSE /\ Emit(<< Chunk("error", FALSE, FALSE, 0, FALSE, "stop"), DoneSentinel >>)
                 /\ spc' = "returned"
                 /\ Finally("returned")
                 /\ UNCHANGED callerExc
    /\ UNCHANGED << show_thinking, profile, is_image, thinkVars, videoVars, wrapperVars >>

\* ProgressAdvances that lets a repeated value through
ProgressAdvances_OrEqual(p) == p >= last_video_progress

\* processer.py:224  only a higher progress value is reported
ProgressAdvances(p) == p > last_video_progress

\* processer.py:219-242  video progress and video url
LineVideo ==
    /\ UNCHANGED << execVars, extVars >>
    /\ \E env \in EnvelopesOf(profile) :
         /\ env.kind = "video"
         /\ Read(env)
         /\ LET adv == ProgressAdvances(env.progress)
                line == IF ~video_progress_started
                        THEN Chunk("progress", TRUE, FALSE, env.progress, FALSE, "")
                        ELSE IF env.progress < 100
                             THEN Chunk("progress", FALSE, FALSE, env.progress, FALSE, "")
                             ELSE Chunk("progress", FALSE, TRUE, env.progress, FALSE, "")
                prog == IF adv /\ show_thinking THEN << line >> ELSE << >>
                vid == IF env.url THEN << Chunk("video", FALSE, FALSE, 0, FALSE, "") >>
                       ELSE << >>
            IN /\ last_video_progress' = IF adv THEN env.progress ELSE last_video_progress
               /\ video_progress_started' = (video_progress_started \/ (adv /\ show_thinking))
               /\ Emit(prog \o vid)
    /\ UNCHANGED << show_thinking, profile, is_image, thinkVars, wrapperVars, spc, callerExc,
                    resourceVars >>

\* processer.py:245-293  image mode
LineImage ==
    /\ UNCHANGED << execVars, extVars >>
    /\ \E env \in EnvelopesOf(profile) :
         /\ env.kind = "resp"
         /\ ImageFlagAfter(env)
         /\ Read(env)
         /\ is_image' = ImageFlagAfter(env)
         /\ IF env.modelResponse
            THEN /\ Emit(<< Chunk("images", FALSE, FALSE, 0, FALSE, ""), StopChunk >>)
                 /\ spc' = "returned"
                 /\ Finally("returned")
            ELSE /\ IF env.tok # "empty"
                    THEN Emit(<< Chunk("token", FALSE, FALSE, 0, env.isThinking, "") >>)
                    ELSE UNCHANGED << engineOut, callerOut >>
                 /\ UNCHANGED << spc, resourceVars >>
    /\ UNCHANGED << show_thinking, profile, thinkVars, videoVars, wrapperVars, callerExc >>

\* ThinkingSuppressed without the latch
ThinkingSuppressed_Never(env) == FALSE

\* processer.py:306  thinking content after the thinking block was closed
ThinkingSuppressed(env) == thinking_finished /\ env.isThinking

\* processer.py:297-326  envelopes the conversation branch drops
ChatDropped(env) ==
    \/ env.tok = "list"
    \/ env.tok = "text" /\ env.filtered
    \/ ThinkingSuppressed(env)
    \/ env.card # "none" /\ ~(env.card = "search" /\ env.isThinking /\ show_thinking)

\* processer.py:319-328  the token is not empty (search results are appended)
HasToken(env) == env.tok = "text" \/ env.card = "search"

\* processer.py:297-352  conversation
LineChat ==
    /\ UNCHANGED << execVars, extVars >>
    /\ \E env \in EnvelopesOf(profile) :
         /\ env.kind = "resp"
         /\ ~ImageFlagAfter(env)
         /\ Read(env)
         /\ IF ChatDropped(env) \/ ~HasToken(env)
            THEN UNCHANGED << thinkVars, engineOut, callerOut >>
            ELSE LET opening == ~is_thinking /\ env.isThinking
                     closing == is_thinking /\ ~env.isThinking
                     should_skip == env.isThinking /\ ~show_thinking
                 IN /\ thinking_finished' = (thinking_finished \/ closing)
                    /\ is_thinking' = env.isThinking
                    /\ IF should_skip
                       THEN UNCHANGED << engineOut, callerOut >>
                       ELSE Emit(<< [Chunk("token", opening /\ show_thinking,
                                           closing /\ show_thinking, 0,
                                           env.isThinking, "")
                                       EXCEPT !.header = env.header] >>)
    /\ UNCHANGED << show_thinking, profile, is_image, videoVars, wrapperVars, spc, callerExc,
                    resourceVars >>

\* processer.py:363-364  the upstream is exhausted
StreamEnd ==
    /\ UNCHANGED << execVars, extVars >>
    /\ spc = "running"
    /\ Emit(<< StopChunk, DoneSentinel >>)
    /\ spc' = "returned"
    /\ Finally("returned")
    /\ UNCHANGED << show_thinking, profile, is_image, thinkVars, videoVars, wrapperVars,
                    lines, nread, callerExc, timerVars >>

\* processer.py:369-372  reading the upstream fails with an unexpected exception
StreamFatal ==
    /\ UNCHANGED << execVars, extVars >>
    /\ spc = "running"
    /\ Emit(<< Chunk("error", FALSE, FALSE, 0, FALSE, "error"), DoneSentinel >>)
    /\ spc' = "returned"
    /\ Finally("returned")
    /\ UNCHANGED << show_thinking, profile, is_image, thinkVars, videoVars, wrapperVars,
                    lines, nread, callerExc, timerVars >>

\* the consumer closes the generator, or its task is cancelled: GeneratorExit
\* and CancelledError are not caught by "except Exception", only the finally
\* clause runs
ConsumerClose ==
    /\ UNCHANGED << execVars, extVars >>
    /\ spc = "running"
    /\ spc' = "closed"
    /\ Finally("closed")
    /\ UNCHANGED << show_thinking, profile, is_image, thinkVars, videoVars, wrapperVars,
                    lines, nread, engineOut, callerOut, callerExc, timerVars >>

\* what one executor run for the re-issued call can end with
ReissueExecOutcomes ==
    {[how |-> "return", via |-> "result", r |-> Value("SUCCESS", 1)],
     [how |-> "return", via |-> "result", r |-> Status(400, "ok", 1)],
     [how |-> "raise", via |-> "raise", r |-> Raise("NETWORK_ERROR", 1)]}

\* ReissueCall with a credential taken afresh instead of the one in use
ReissueCall_OtherToken ==
    [token |-> CHOOSE t \in Tokens : t # token, payload |-> payload, stream |-> TRUE]

\* client.py:338  the call _nsfw_retry_stream re-issues
ReissueCall == [token |-> token, payload |-> payload, stream |-> TRUE]

\* client.py:336  the credentials the permissive mode is enabled for
EnableForRecovery == << token >>

\* RecoveryLeft of a wrapper that also recovers the stream it re-issued
RecoveryLeft_Always == wphase \in {"first", "second"}

\* client.py:329-340  the try covers the loop over the first engine only
RecoveryLeft == wphase = "first"

\* client.py:332-340  the first engine raised CONTENT_MODERATED
NsfwRetry ==
    /\ UNCHANGED << execVars, extVars >>
    /\ RecoveryLeft
    /\ spc = "raised"
    /\ enableCalls' = enableCalls \o EnableForRecovery
    /\ reissued' = Append(reissued, ReissueCall)
    /\ firstOut' = engineOut
    /\ \E eo \in ReissueExecOutcomes :
         LET res == RequestResult(eo) IN
         IF res.how = "stream"
         THEN \* a new engine: process_stream starts with fresh locals
              /\ wphase' = "second"
              /\ eng' = 2
              /\ spc' = "running"
              /\ lines' = << >>
              /\ engineOut' = << >>
              /\ is_image' = FALSE
              /\ is_thinking' = FALSE
              /\ thinking_finished' = FALSE
              /\ video_progress_started' = FALSE
              /\ last_video_progress' = -1
              /\ timeout_mgr' = StreamTimeoutManager(timeout_mgr.chunk_timeout,
                                                     timeout_mgr.first_timeout,
                                                     timeout_mgr.total_timeout, now)
              /\ UNCHANGED callerExc
         ELSE /\ wphase' = "second"
              /\ callerExc' = res.err
              /\ UNCHANGED << eng, spc, lines, engineOut, is_image, thinkVars, videoVars,
                              timeout_mgr >>
    /\ UNCHANGED << show_thinking, profile, nread, callerOut, token, payload, now,
                    resourceVars >>

\* _retry returned _nsfw_retry_stream(process_stream(...), token, payload, ...)
StreamInit ==
    /\ max_outer_retry = DefaultMaxOuterRetry
    /\ max_403_retries = DefaultMax403Retries
    /\ use_proxy_pool_for_403 = TRUE
    /\ proxy_pool_enabled = FALSE
    /\ stream = TRUE
    /\ pc = "idle"
    /\ outer_retry = 0
    /\ retry_403_count = 0
    /\ last_result = None
    /\ calls = 0
    /\ sleeps = 0
    /\ lastSleep = 0
    /\ sleptSince = FALSE
    /\ lastAttempt = NoAttempt
    /\ seen = {}
    /\ execOutcome = [how |-> "none", via |-> "", r |-> None]
    /\ reqOutcome = NoOutcome
    /\ show_thinking \in BOOLEAN
    /\ profile \in Profiles
    /\ token \in Tokens
    /\ payload \in Payloads
    /\ is_image = FALSE
    /\ is_thinking = FALSE
    /\ thinking_finished = FALSE
    /\ video_progress_started = FALSE
    /\ last_video_progress = -1
    /\ spc = "running"
    /\ eng = 1
    /\ lines = << >>
    /\ nread = 0
    /\ engineOut = << >>
    /\ firstOut = << >>
    /\ callerOut = << >>
    /\ callerExc = ""
    /\ now = Unobserved
    /\ timeout_mgr = StreamTimeoutManager(0, 0, 0, Unobserved)
    /\ response_closes = NoCloses
    /\ session_closes = NoCloses
    /\ wphase = "first"
    /\ enableCalls = << >>
    /\ reissued = << >>
    /\ ExtIdle

StreamNext ==
    \/ LineTimeout
    \/ LineSkipped
    \/ LineRaises
    \/ LineError
    \/ LineVideo
    \/ LineImage
    \/ LineChat
    \/ StreamEnd
    \/ StreamFatal
    \/ ConsumerClose
    \/ NsfwRetry

SpecStream == StreamInit /\ [][StreamNext]_vars

(***************************************************************************)
(* Claims about process_stream and _nsfw_retry_stream                      *)
(***************************************************************************)
Idx(seq, P(_)) == {i \in DOMAIN seq : P(seq[i])}

IsOpen(c) == c.t = "chunk" /\ c.open
IsClose(c) == c.t = "chunk" /\ c.close
IsProgress(c) == c.t = "chunk" /\ c.what = "progress"
IsToken(c) == c.t = "chunk" /\ c.what = "token"

\* every line read so far is a text envelope of the conversation
TextOnly ==
    \A i \in DOMAIN lines :
        /\ lines[i].kind = "resp"
        /\ ~lines[i].imageInfo /\ ~lines[i].modelResponse

TokenChunk(n, open, close, thinking) ==
    [eng |-> eng, line |-> n, t |-> "chunk", what |-> "token", open |-> open,
     close |-> close, progress |-> 0, thinking |-> thinking, header |-> FALSE,
     finish |-> ""]

\* C8: thinking latch. With show_thinking on and only text envelopes read, the
\* opening marker and the closing marker are each emitted at most once, no
\* chunk after the closing marker carries an opening marker or comes from an
\* envelope flagged isThinking, and thinking_finished is set exactly when the
\* closing marker was emitted; for [thinking, thinking, plain, thinking] the
\* output is one chunk with the opening marker, one thinking chunk, one chunk
\* with the closing marker, and nothing for the fourth envelope.
C8_ThinkingLatch ==
    (show_thinking /\ TextOnly) =>
        /\ Cardinality(Idx(engineOut, IsOpen)) <= 1
        /\ Cardinality(Idx(engineOut, IsClose)) <= 1
        /\ thinking_finished <=> (Idx(engineOut, IsClose) # {})
        /\ \A i \in Idx(engineOut, IsClose) : \A j \in DOMAIN engineOut :
              j > i => /\ ~engineOut[j].open
                       /\ IsToken(engineOut[j]) => ~lines[engineOut[j].line].isThinking
        /\ \A j \in Idx(engineOut, IsToken) :
              (thinking_finished /\ lines[engineOut[j].line].isThinking) =>
                  \E i \in Idx(engineOut, IsClose) : j < i
        /\ lines = << Thinking, Thinking, Answer, Thinking >> =>
              SelectSeq(engineOut, IsToken) = << TokenChunk(1, TRUE, FALSE, TRUE),
                             TokenChunk(2, FALSE, FALSE, TRUE),
                             TokenChunk(3, FALSE, TRUE, FALSE) >>

C8_Witness ==
    /\ show_thinking /\ spc = "returned"
    /\ engineOut[Len(engineOut)].t = "done"
    /\ lines = << Thinking, Thinking, Answer, Thinking >>
    /\ thinking_finished
    /\ Len(SelectSeq(engineOut, IsToken)) = 3

VideoIdx == {i \in DOMAIN lines : lines[i].kind = "video"}

\* the progress value of line i is higher than every one read before it
NewHigh(i) == \A j \in VideoIdx : j < i => lines[j].progress < lines[i].progress

ProgressChunk(n, p, open, close) ==
    [eng |-> eng, line |-> n, t |-> "chunk", what |-> "progress", open |-> open,
     close |-> close, progress |-> p, thinking |-> FALSE, header |-> FALSE,
     finish |-> ""]

\* C9: video progress coalescing. A progress chunk is emitted only for an
\* envelope whose progress is strictly greater than every progress read before
\* it, and with show_thinking on for every such envelope; last_video_progress is
\* the highest progress read so far; for [10, 10, 30, 25, 100] with
\* show_thinking on the chunks are exactly those for 10, 30 and 100, and with
\* show_thinking off no progress chunk is emitted at all.
C9_ProgressCoalescing ==
    /\ \A k \in Idx(engineOut, IsProgress) :
          LET c == engineOut[k] IN
          /\ c.line \in VideoIdx
          /\ c.progress = lines[c.line].progress
          /\ NewHigh(c.line)
          /\ \A m \in Idx(engineOut, IsProgress) :
                m < k => engineOut[m].progress < c.progress
    /\ show_thinking =>
          \A i \in VideoIdx :
              NewHigh(i) => \E k \in Idx(engineOut, IsProgress) : engineOut[k].line = i
    /\ ~show_thinking => Idx(engineOut, IsProgress) = {}
    /\ \A i \in VideoIdx : lines[i].progress <= last_video_progress
    /\ last_video_progress = -1 \/ \E i \in VideoIdx : lines[i].progress = last_video_progress
    /\ (show_thinking /\ lines = << VideoEnv(10, FALSE), VideoEnv(10, FALSE),
                                   VideoEnv(30, FALSE), VideoEnv(25, FALSE),
                                   VideoEnv(100, FALSE) >>) =>
          SelectSeq(engineOut, IsProgress) = << ProgressChunk(1, 10, TRUE, FALSE),
                         ProgressChunk(3, 30, FALSE, FALSE),
                         ProgressChunk(5, 100, FALSE, TRUE) >>

C9_Witness ==
    /\ show_thinking
    /\ lines = << VideoEnv(10, FALSE), VideoEnv(10, FALSE), VideoEnv(30, FALSE),
                  VideoEnv(25, FALSE), VideoEnv(100, FALSE) >>
    /\ Len(SelectSeq(engineOut, IsProgress)) = 3
    /\ last_video_progress = 100
    /\ spc = "returned"

\* C10: mid-stream moderation splice. When the first engine raises
\* ContentModerated after k chunks and the re-issued call yields a new engine,
\* the caller receives exactly those k chunks followed by the chunks of the new
\* engine; the call is re-issued once, with the same credential and payload;
\* the permissive mode is enabled exactly once, for that credential; none of
\* the k chunks is a terminal sentinel or carries a finish reason, and the
\* caller sees no exception unless the new engine raises one.
C10_ModerationSplice ==
    /\ wphase = "first" =>
          /\ callerOut = engineOut
          /\ callerExc = ""
          /\ enableCalls = << >> /\ reissued = << >>
    /\ wphase = "second" =>
          /\ enableCalls = << token >>
          /\ reissued = << [token |-> token, payload |-> payload, stream |-> TRUE] >>
          /\ \A i \in DOMAIN firstOut :
                firstOut[i].t = "chunk" /\ firstOut[i].finish = "" /\ firstOut[i].eng = 1
          /\ IF eng = 2
             THEN /\ callerOut = firstOut \o engineOut
                  /\ \A i \in DOMAIN engineOut : engineOut[i].eng = 2
                  /\ callerExc # "" => (spc = "raised" /\ callerExc = "CONTENT_MODERATED")
             ELSE /\ callerOut = firstOut
                  /\ callerExc # ""

C10_Witness ==
    /\ wphase = "second" /\ eng = 2
    /\ Len(firstOut) = 2
    /\ spc = "returned"
    /\ Len(engineOut) = 3
    /\ engineOut[1].what = "token"
    /\ engineOut[3].t = "done"
    /\ callerOut = firstOut \o engineOut
    /\ callerExc = ""
    /\ enableCalls = << token >>

(***************************************************************************)
(* GrokClient._retry: the orchestrator's attempts over one process         *)
(* lifetime (client.py:64-124), with the moderation recovery of            *)
(* _nsfw_retry_stream once a stream was handed to the caller.              *)
(***************************************************************************)
\* client.py:24
MAX_RETRY == 3

\* calls of _retry made in one process lifetime
MaxRequests == 2

\* the state of process_stream and of the caller's view of it
engineVars == << show_thinking, is_image, is_thinking, thinking_finished,
                 video_progress_started, last_video_progress, profile, spc, eng,
                 lines, nread, engineOut, firstOut, callerOut, callerExc, now,
                 timeout_mgr, response_closes, session_closes >>

\* what the executor run of one orchestrator attempt can end with
OrchExecOutcomes ==
    {[how |-> "return", via |-> "result", r |-> Value(v, 1)] :
        v \in IF stream THEN {"SUCCESS"} ELSE {"SUCCESS", "content_moderated"}}
      \cup {[how |-> "return", via |-> "last_result", r |-> Status(s, b, 1)] :
               s \in Statuses \ {200}, b \in {"ok", "moderated"}}
      \cup {[how |-> "raise", via |-> "raise", r |-> Raise("NETWORK_ERROR", 1)]}

\* client.py:82-90  how _upload, _create_post, _build_payload and _request end
AttemptOutcomes == {RequestResult(eo) : eo \in OrchExecOutcomes}

\* token_manager.get_token raising: no credential is available
TokenFailures ==
    {[how |-> "raise", err |-> "NO_AVAILABLE_TOKEN", status |-> s, id |-> 0] : s \in {0, 429}}

\* client.py:71-75  the credential of this attempt and where it came from
Selected(t) == IF force_token # "" THEN force_token ELSE t
Via == IF force_token # "" THEN "forced" ELSE "get_token"

\* client.py:78  the permissive mode is enabled before the call
Proactive(t) == auto_nsfw /\ t \notin nsfw_enabled_tokens

\* client.py:79  the enable calls made before the call
EnableProactive(t) == IF Proactive(t) THEN << t >> ELSE << >>

\* client.py:104  the enable calls made after a moderated attempt
EnableOnModerated(t) == << t >>

\* ForceOnModerated of an orchestrator that goes back to the token provider
ForceOnModerated_None(t) == ""

\* client.py:105  the credential forced on the next attempt
ForceOnModerated(t) == t

\* OrchRetryable without the status test: every HTTP error is retried
OrchRetryable_AnyHttpError(res) == res.err \in {"HTTP_ERROR", "NO_AVAILABLE_TOKEN"}

\* client.py:111-118  the error is one the loop retries
OrchRetryable(res) ==
    /\ res.err \in {"HTTP_ERROR", "NO_AVAILABLE_TOKEN"}
    /\ res.status \in retry_codes

\* client.py:71-90  one attempt with credential t, ending as res
OrchBody(t, res) ==
    /\ opc = "attempt"
    /\ token' = t
    /\ payload' = "payload"
    /\ nsfw_enabled_tokens' = IF Proactive(t) THEN nsfw_enabled_tokens \cup {t}
                              ELSE nsfw_enabled_tokens
    /\ attempts' = Append(attempts, [i |-> attempt_i, token |-> t, via |-> Via,
                                     err |-> res.err, status |-> res.status])

\* NextIndex of a loop in which a moderated attempt costs nothing
NextIndex_ModeratedFree(res) ==
    IF res.err = "CONTENT_MODERATED" THEN attempt_i ELSE attempt_i + 1

\* client.py:69, 108  for i in range(MAX_RETRY): continue and the end of the
\* body both move on to the next value of i
NextIndex(res) == attempt_i + 1

\* the for loop goes on to attempt i + 1, or ends and line 124 raises last_err
OrchContinue(res) ==
    /\ last_err' = res.err
    /\ IF NextIndex(res) < MAX_RETRY
       THEN /\ attempt_i' = NextIndex(res)
            /\ UNCHANGED << opc, orchOutcome >>
       ELSE /\ opc' = "done"
            /\ orchOutcome' = res
            /\ UNCHANGED attempt_i

\* client.py:75  get_token raises
OrchTokenFails ==
    /\ opc = "attempt"
    /\ force_token = ""
    /\ \E res \in TokenFailures :
         /\ attempts' = Append(attempts, [i |-> attempt_i, token |-> "", via |-> Via,
                                          err |-> res.err, status |-> res.status])
         /\ IF OrchRetryable(res)
            THEN OrchContinue(res)
            ELSE /\ opc' = "done"
                 /\ orchOutcome' = res
                 /\ last_err' = res.err
                 /\ UNCHANGED attempt_i
    /\ UNCHANGED << auto_nsfw, nsfw_enabled_tokens, force_token, requests >>
    /\ UNCHANGED << normalVars, codecVars, gateVars, sideVars >>
    /\ UNCHANGED << execVars, engineVars, wphase, token, payload, enableCalls, reissued >>

\* client.py:90-96  _request returns: the result, or the wrapped stream
OrchReturns ==
    /\ \E t \in Tokens, res \in AttemptOutcomes :
         /\ t = Selected(t)
         /\ res.how \in {"result", "stream"}
         /\ OrchBody(t, res)
         /\ enableCalls' = enableCalls \o EnableProactive(t)
         /\ orchOutcome' = res
    /\ force_token' = ""
    /\ opc' = IF stream THEN "streaming" ELSE "done"
    /\ wphase' = IF stream THEN "first" ELSE wphase
    /\ UNCHANGED << auto_nsfw, attempt_i, last_err, requests >>
    /\ UNCHANGED << normalVars, codecVars, gateVars, sideVars >>
    /\ UNCHANGED << execVars, engineVars, reissued >>

\* client.py:102-108  the attempt is flagged as moderated
OrchModerated ==
    /\ \E t \in Tokens, res \in AttemptOutcomes :
         /\ t = Selected(t)
         /\ res.err = "CONTENT_MODERATED"
         /\ OrchBody(t, res)
         /\ enableCalls' = enableCalls \o EnableProactive(t) \o EnableOnModerated(t)
         /\ force_token' = ForceOnModerated(t)
         /\ OrchContinue(res)
    /\ UNCHANGED << auto_nsfw, requests >>
    /\ UNCHANGED << normalVars, codecVars, gateVars, sideVars >>
    /\ UNCHANGED << execVars, engineVars, wphase, reissued >>

\* client.py:111-122  a retryable status
OrchRetried ==
    /\ \E t \in Tokens, res \in AttemptOutcomes :
         /\ t = Selected(t)
         /\ res.how = "raise" /\ res.err # "CONTENT_MODERATED"
         /\ OrchRetryable(res)
         /\ OrchBody(t, res)
         /\ enableCalls' = enableCalls \o EnableProactive(t)
         /\ OrchContinue(res)
    /\ force_token' = ""
    /\ UNCHANGED << auto_nsfw, requests >>
    /\ UNCHANGED << normalVars, codecVars, gateVars, sideVars >>
    /\ UNCHANGED << execVars, engineVars, wphase, reissued >>

\* client.py:112,118  any other error leaves _retry at once
OrchRaises ==
    /\ \E t \in Tokens, res \in AttemptOutcomes :
         /\ t = Selected(t)
         /\ res.how = "raise" /\ res.err # "CONTENT_MODERATED"
         /\ ~OrchRetryable(res)
         /\ OrchBody(t, res)
         /\ enableCalls' = enableCalls \o EnableProactive(t)
         /\ orchOutcome' = res
         /\ last_err' = res.err
    /\ force_token' = ""
    /\ opc' = "done"
    /\ UNCHANGED << auto_nsfw, attempt_i, requests >>
    /\ UNCHANGED << normalVars, codecVars, gateVars, sideVars >>
    /\ UNCHANGED << execVars, engineVars, wphase, reissued >>

\* client.py:332-338  the stream handed to the caller is flagged mid-way
StreamModerated ==
    /\ opc = "streaming"
    /\ wphase = "first"
    /\ enableCalls' = enableCalls \o EnableForRecovery
    /\ reissued' = Append(reissued, ReissueCall)
    /\ wphase' = "second"
    /\ UNCHANGED << normalVars, codecVars, gateVars, sideVars >>
    /\ UNCHANGED << orchVars, execVars, engineVars, token, payload >>

\* the caller has consumed the stream
StreamFinished ==
    /\ opc = "streaming"
    /\ opc' = "done"
    /\ UNCHANGED << auto_nsfw, nsfw_enabled_tokens, attempt_i, force_token, last_err,
                    requests, attempts, orchOutcome >>
    /\ UNCHANGED << normalVars, codecVars, gateVars, sideVars >>
    /\ UNCHANGED << execVars, engineVars, wphase, token, payload, enableCalls, reissued >>

\* client.py:61  the next request of this process calls _retry
NewRequest ==
    /\ opc = "done"
    /\ requests < MaxRequests
    /\ requests' = requests + 1
    /\ opc' = "attempt"
    /\ attempt_i' = 0
    /\ force_token' = ""
    /\ last_err' = ""
    /\ attempts' = << >>
    /\ orchOutcome' = NoOutcome
    /\ token' = ""
    /\ payload' = ""
    /\ wphase' = "idle"
    /\ reissued' = << >>
    /\ UNCHANGED << auto_nsfw, nsfw_enabled_tokens, enableCalls >>
    /\ UNCHANGED << normalVars, codecVars, gateVars, sideVars >>
    /\ UNCHANGED << execVars, engineVars >>

\* the executor is not under study: _request is seen through its outcomes
ExecIdle ==
    /\ max_outer_retry = DefaultMaxOuterRetry
    /\ max_403_retries = DefaultMax403Retries
    /\ use_proxy_pool_for_403 = TRUE
    /\ proxy_pool_enabled = FALSE
    /\ pc = "idle"
    /\ outer_retry = 0
    /\ retry_403_count = 0
    /\ last_result = None
    /\ calls = 0
    /\ sleeps = 0
    /\ lastSleep = 0
    /\ sleptSince = FALSE
    /\ lastAttempt = NoAttempt
    /\ seen = {}
    /\ execOutcome = [how |-> "none", via |-> "", r |-> None]
    /\ reqOutcome = NoOutcome

OrchInit ==
    /\ ExecIdle
    /\ SideIdle
    /\ stream \in BOOLEAN
    /\ StreamIdle
    /\ auto_nsfw \in BOOLEAN
    /\ nsfw_enabled_tokens = {}
    /\ attempt_i = 0
    /\ force_token = ""
    /\ last_err = ""
    /\ opc = "attempt"
    /\ requests = 1
    /\ attempts = << >>
    /\ orchOutcome = NoOutcome
    /\ NormalIdle
    /\ CodecIdle
    /\ GateIdle

OrchNext ==
    \/ OrchTokenFails
    \/ OrchReturns
    \/ OrchModerated
    \/ OrchRetried
    \/ OrchRaises
    \/ StreamModerated
    \/ StreamFinished
    \/ NewRequest

SpecOrch == OrchInit /\ [][OrchNext]_vars

(***************************************************************************)
(* Claims about GrokClient._retry                                          *)
(***************************************************************************)
\* how many times the enable call was attempted for credential t
EnableCount(t) == Cardinality({k \in DOMAIN enableCalls : enableCalls[k] = t})

\* C11: permissive-mode enabling is idempotent per credential: over any
\* sequence of requests and moderation events in one process lifetime the
\* enable call is attempted at most once for any given credential.
C11_EnableAtMostOncePerCredential ==
    \A t \in Tokens : EnableCount(t) <= 1

Moderated(a) == a.err = "CONTENT_MODERATED"

\* C12: moderation recovery before a stream starts. When attempt i of _retry
\* fails with ContentModerated and i is not the last attempt, attempt i+1 is
\* made, with the very same credential and without asking the token provider;
\* the forced credential is used for that one attempt only: an attempt that
\* follows a failure other than moderation, and the first attempt, take their
\* credential from the token provider.
C12_ModeratedRetryReusesCredential ==
    /\ \A k \in DOMAIN attempts :
          /\ attempts[k].i = k - 1
          /\ k = 1 => attempts[k].via = "get_token"
          /\ k > 1 =>
                IF Moderated(attempts[k - 1])
                THEN /\ attempts[k].via = "forced"
                     /\ attempts[k].token = attempts[k - 1].token
                ELSE attempts[k].via = "get_token"
    /\ (attempts # << >> /\ Moderated(attempts[Len(attempts)])) =>
          IF attempts[Len(attempts)].i < MAX_RETRY - 1
          THEN /\ opc = "attempt"
               /\ attempt_i = Len(attempts)
               /\ force_token = attempts[Len(attempts)].token
          ELSE /\ opc = "done"
               /\ orchOutcome.how = "raise"
               /\ orchOutcome.err = "CONTENT_MODERATED"
    /\ (attempts # << >> /\ ~Moderated(attempts[Len(attempts)])) => force_token = ""

C12_Witness ==
    /\ Len(attempts) = 3
    /\ Moderated(attempts[1]) /\ attempts[1].via = "get_token"
    /\ attempts[2].via = "forced" /\ attempts[2].token = attempts[1].token
    /\ attempts[2].err = "HTTP_ERROR" /\ attempts[2].status = 429
    /\ attempts[3].via = "get_token" /\ attempts[3].token # attempts[2].token
    /\ attempts[3].err = ""

(***************************************************************************)
(* process_stream with the clock followed: StreamTimeoutManager            *)
(* (processer.py:24-57) and the check of processer.py:181-186              *)
(***************************************************************************)
\* the event loop time up to which the clock is followed
MaxTime == 4

\* stream_first_response_timeout, stream_chunk_timeout, stream_total_timeout
FirstTimeouts == {1, 2}
ChunkTimeouts == {1}
TotalTimeouts == {0, 3}

\* time passes while the engine waits for the next line
Tick ==
    /\ UNCHANGED << execVars, extVars >>
    /\ spc = "running"
    /\ now # Unobserved
    /\ now < MaxTime
    /\ now' = now + 1
    /\ UNCHANGED << show_thinking, profile, is_image, thinkVars, videoVars, wrapperVars,
                    spc, lines, nread, engineOut, callerOut, callerExc, timeout_mgr,
                    resourceVars >>

\* process_stream starts at time 0 on a conversation
TimerInit ==
    /\ ExecIdle
    /\ stream = TRUE
    /\ ExtIdle
    /\ show_thinking = TRUE
    /\ profile = "timed"
    /\ token \in Tokens
    /\ payload \in Payloads
    /\ is_image = FALSE
    /\ is_thinking = FALSE
    /\ thinking_finished = FALSE
    /\ video_progress_started = FALSE
    /\ last_video_progress = -1
    /\ spc = "running"
    /\ eng = 1
    /\ lines = << >>
    /\ nread = 0
    /\ engineOut = << >>
    /\ firstOut = << >>
    /\ callerOut = << >>
    /\ callerExc = ""
    /\ now = 0
    /\ timeout_mgr \in {StreamTimeoutManager(ct, ft, tt, 0) :
                          ct \in ChunkTimeouts, ft \in FirstTimeouts, tt \in TotalTimeouts}
    /\ response_closes = NoCloses
    /\ session_closes = NoCloses
    /\ wphase = "first"
    /\ enableCalls = << >>
    /\ reissued = << >>

TimerNext ==
    \/ Tick
    \/ LineTimeout
    \/ LineSkipped
    \/ LineChat
    \/ StreamEnd
    \/ StreamFatal

SpecTimer == TimerInit /\ [][TimerNext]_vars

\* time passes whatever the upstream does; nothing makes the upstream send a
\* line or close the connection
FairSpecTimer == SpecTimer /\ WF_vars(Tick)

(***************************************************************************)
(* Claims about the exits of process_stream                                *)
(***************************************************************************)
\* one of the three timers is violated at the current time
TimerViolated == now # Unobserved /\ check_timeout

IsStop(c) == c.t = "chunk" /\ c.finish = "stop"

\* the upstream has lines left that it could send
UpstreamOpen == nread < LineBudget

\* the output ends with its only stop chunk, then the terminal sentinel
EndsStopThenDone ==
    /\ Len(engineOut) >= 2
    /\ IsStop(engineOut[Len(engineOut) - 1])
    /\ engineOut[Len(engineOut)].t = "done"
    /\ Cardinality(Idx(engineOut, IsStop)) = 1

\* the output ends with the error chunk of the fatal handler, then the sentinel
EndsFatal ==
    /\ Len(engineOut) >= 2
    /\ engineOut[Len(engineOut) - 1].finish = "error"
    /\ engineOut[Len(engineOut)].t = "done"

\* C13: stream timeouts. Whenever one of the three timers is violated while the
\* engine is running, the engine eventually emits exactly one stop chunk
\* followed by the terminal sentinel and ends its output without raising,
\* whether or not the upstream delivers any further line. It is stated for the
\* states in which the upstream has more lines it could send, and an output
\* ended by the fatal handler, when reading the upstream fails, is not held
\* against the claim.
C13_TimeoutEndsStream ==
    (spc = "running" /\ TimerViolated /\ UpstreamOpen) ~>
        (spc = "returned" /\ callerExc = "" /\ (EndsStopThenDone \/ EndsFatal))

\* C14: every output of the streaming engine that ends without raising has the
\* terminal sentinel as its last element, on every exit path.
C14_EndsWithSentinel ==
    spc = "returned" =>
        /\ engineOut # << >>
        /\ engineOut[Len(engineOut)].t = "done"

\* engine e has left process_stream
Exited(e) == e < eng \/ (e = eng /\ spc \in {"returned", "raised", "closed"})

\* C15: streaming resource discipline. For every started run of process_stream
\* the upstream response and the transport session are each closed exactly once
\* when the run has ended, on whichever exit path (upstream exhausted, timeout,
\* error frame, image-mode return, ContentModerated unwind, fatal error,
\* consumer closing the generator), and neither is closed while the run is
\* still producing chunks.
C15_ClosedExactlyOnce ==
    \A e \in {1, 2} :
        /\ Exited(e) => (response_closes[e] = 1 /\ session_closes[e] = 1)
        /\ ~Exited(e) => (response_closes[e] = 0 /\ session_closes[e] = 0)

C15_Witness ==
    /\ wphase = "second" /\ eng = 2
    /\ firstOut # << >>
    /\ spc = "closed"
    /\ engineOut # << >>
    /\ response_closes = [e \in {1, 2} |-> 1]
    /\ session_closes = [e \in {1, 2} |-> 1]

(***************************************************************************)
(* GrokResponseProcessor.process_normal: one call, line by line            *)
(* (processer.py:70-138)                                                   *)
(***************************************************************************)
\* lines one call reads at most
MaxNormalLines == 3

\* lines the loop skips: blank (75-76), a response without modelResponse
\* (103-104), a video response without videoUrl (93-94, 103-104)
SkippedKinds == {"blank", "noresp", "progress"}

\* lines on which the call returns a result (93-99, 102-121)
ReturningKinds == {"video_url", "model_response"}

\* lines on which a GrokApiException is raised (81-88, 106-108)
RaisedCode(kind) ==
    CASE kind = "error_moderated" -> "CONTENT_MODERATED"
      [] kind = "error_api" -> "API_ERROR"
      [] kind = "model_error_moderated" -> "CONTENT_MODERATED"
      [] kind = "model_error" -> "MODEL_ERROR"

BusinessKinds == {"error_moderated", "error_api", "model_error_moderated", "model_error"}

\* ClosedFlagOnReturn of a return path that closes without setting the flag
ClosedFlagOnReturn_Unset == FALSE

\* processer.py:97,119  response_closed = True before response.close()
ClosedFlagOnReturn == TRUE

\* processer.py:133-138  calls of response.close() the finally clause makes
FinallyCloses(closed) == IF closed THEN 0 ELSE 1

NormalRead(kind) ==
    /\ npc = "running"
    /\ Len(normal_lines) < MaxNormalLines
    /\ normal_lines' = Append(normal_lines, kind)

\* leaving through the finally clause with outcome out
NormalLeave(how, out) ==
    /\ npc' = how
    /\ normalOutcome' = out
    /\ normal_closes' = normal_closes + FinallyCloses(response_closed)
    /\ UNCHANGED response_closed

restVars == << execVars, streamVars, orchVars, codecVars, gateVars, sideVars >>

\* processer.py:75-76, 93-94, 103-104
NormalSkip ==
    /\ \E kind \in SkippedKinds : NormalRead(kind)
    /\ UNCHANGED << npc, response_closed, normal_closes, close_raises, normalOutcome >>
    /\ UNCHANGED restVars

\* processer.py:93-99, 102-121  a completed video or a model response: the
\* response is closed, then the result returned; a close() that raises is
\* caught at line 130
NormalReturn ==
    /\ \E kind \in ReturningKinds : NormalRead(kind)
    /\ response_closed' = ClosedFlagOnReturn
    /\ normal_closes' = normal_closes + 1 + FinallyCloses(ClosedFlagOnReturn)
    /\ npc' = IF close_raises THEN "raised" ELSE "returned"
    /\ normalOutcome' = IF close_raises THEN "PROCESS_ERROR" ELSE "RESULT"
    /\ UNCHANGED close_raises
    /\ UNCHANGED restVars

\* processer.py:81-88, 106-108, 125-126  error frame or model error
NormalBusinessError ==
    /\ \E kind \in BusinessKinds :
         /\ NormalRead(kind)
         /\ NormalLeave("raised", RaisedCode(kind))
    /\ UNCHANGED close_raises
    /\ UNCHANGED restVars

\* processer.py:78, 127-129  the line is not JSON
NormalJsonError ==
    /\ NormalRead("malformed")
    /\ NormalLeave("raised", "JSON_ERROR")
    /\ UNCHANGED close_raises
    /\ UNCHANGED restVars

\* processer.py:130-132  any other exception, reading the upstream included
NormalUnexpected ==
    /\ npc = "running"
    /\ NormalLeave("raised", "PROCESS_ERROR")
    /\ UNCHANGED << normal_lines, close_raises >>
    /\ UNCHANGED restVars

\* processer.py:123  the upstream is exhausted
NormalExhausted ==
    /\ npc = "running"
    /\ NormalLeave("raised", "NO_RESPONSE")
    /\ UNCHANGED << normal_lines, close_raises >>
    /\ UNCHANGED restVars

\* the task is cancelled while awaiting a line: CancelledError is not an
\* Exception, only the finally clause runs
NormalCancelled ==
    /\ npc = "running"
    /\ NormalLeave("cancelled", "CancelledError")
    /\ UNCHANGED << normal_lines, close_raises >>
    /\ UNCHANGED restVars

NormalInit ==
    /\ ExecIdle
    /\ SideIdle
    /\ stream = FALSE
    /\ StreamIdle
    /\ OrchIdle
    /\ CodecIdle
    /\ GateIdle
    /\ normal_lines = << >>
    /\ npc = "running"
    /\ response_closed = FALSE
    /\ normal_closes = 0
    /\ close_raises \in BOOLEAN
    /\ normalOutcome = ""

NormalNext ==
    \/ NormalSkip
    \/ NormalReturn
    \/ NormalBusinessError
    \/ NormalJsonError
    \/ NormalUnexpected
    \/ NormalExhausted
    \/ NormalCancelled

SpecNormal == NormalInit /\ [][NormalNext]_vars

\* C16: in process_normal the upstream response's close() is invoked exactly
\* once per call on every path that leaves the call (return on a model
\* response, return on a completed video, NO_RESPONSE, ContentModerated or
\* another business exception, JSON decode error, unexpected exception), and
\* not before.
C16_NormalClosesOnce ==
    /\ npc = "running" => normal_closes = 0
    /\ npc \in {"returned", "raised", "cancelled"} => normal_closes = 1
    /\ npc = "returned" <=> normalOutcome = "RESULT"

C16_Witness ==
    /\ npc = "returned"
    /\ normal_lines = << "blank", "progress", "video_url" >>
    /\ normalOutcome = "RESULT"
    /\ response_closed
    /\ normal_closes = 1

(***************************************************************************)
(* gRPC-Web codec (nsfw.py:21-67). A byte is a number in 0..255, a buffer  *)
(* a sequence of bytes; decoded text is a sequence of code points.         *)
(***************************************************************************)
\* longest payload, received frame sequence and raw buffer of the model
MaxPayloadLen == 3
MaxFrames == 2
MaxRawLen == 6

\* struct.pack(">I", n) with the bytes in the opposite order
PackBE32_LittleEndian(n) ==
    << n % 256, (n \div 256) % 256, (n \div 65536) % 256, (n \div 16777216) % 256 >>

\* nsfw.py:25  struct.pack(">I", n)
PackBE32(n) ==
    << (n \div 16777216) % 256, (n \div 65536) % 256, (n \div 256) % 256, n % 256 >>

\* the largest integer TLC holds: a declared length of 2^31 or
\* more is held as this value, which also exceeds every buffer
Huge == 2147483647

\* nsfw.py:40  struct.unpack_from(">I", body, offset + 1)[0]
UnpackBE32(b, offset) ==
    IF b[offset + 2] >= 128 THEN Huge
    ELSE b[offset + 2] * 16777216 + b[offset + 3] * 65536 + b[offset + 4] * 256 + b[offset + 5]

\* nsfw.py:21-27
_encode_grpc_web_payload(data) == << 0 >> \o PackBE32(Len(data)) \o data

\* nsfw.py:37  a whole header is left at offset
HeaderFits(b, offset) == ~(offset + 5 > Len(b))

\* FrameFits that wants a byte to spare after the frame
FrameFits_Strict(b, offset, length) == length < Len(b) - offset

\* nsfw.py:42  offset + length > len(body) is false: the declared length is
\* within the buffer
FrameFits(b, offset, length) == ~(length > Len(b) - offset)

\* the replacement character of decode(errors="replace")
Replacement == 65533

\* nsfw.py:50  data.decode("utf-8", errors="replace"); the bytes above 127 of
\* the model (128 and 255) never form a valid sequence
Utf8Decode(data) == [k \in 1..Len(data) |-> IF data[k] < 128 THEN data[k] ELSE Replacement]

\* position of the first "\r\n" in text, 0 if there is none
FirstCRLF(text) ==
    LET at == {k \in 1..(Len(text) - 1) : text[k] = 13 /\ text[k + 1] = 10} IN
    IF at = {} THEN 0 ELSE CHOOSE k \in at : \A m \in at : k <= m

RECURSIVE SplitCRLF(_)
\* nsfw.py:51  text.split("\r\n")
SplitCRLF(text) ==
    LET k == FirstCRLF(text) IN
    IF k = 0 THEN << text >>
    ELSE << SubSeq(text, 1, k - 1) >> \o SplitCRLF(SubSeq(text, k + 2, Len(text)))

\* nsfw.py:52  line.find(":")
FindColon(line) ==
    LET at == {k \in 1..Len(line) : line[k] = 58} IN
    IF at = {} THEN -1 ELSE (CHOOSE k \in at : \A m \in at : k <= m) - 1

\* str.isspace for the code points below 128
IsSpace(c) == c \in {9, 10, 11, 12, 13, 28, 29, 30, 31, 32}

RECURSIVE Strip(_)
\* nsfw.py:54-55  str.strip()
Strip(text) ==
    IF text = << >> THEN text
    ELSE IF IsSpace(text[1]) THEN Strip(SubSeq(text, 2, Len(text)))
    ELSE IF IsSpace(text[Len(text)]) THEN Strip(SubSeq(text, 1, Len(text) - 1))
    ELSE text

\* Lower of a decoder that keeps the case of the keys
Lower_Identity(c) == c

\* nsfw.py:54  str.lower(), one code point
Lower(c) == IF c \in 65..90 THEN c + 32 ELSE c

LowerText(text) == [k \in 1..Len(text) |-> Lower(text[k])]

\* dict.get(key, default)
Get(d, key, default) == IF key \in DOMAIN d THEN d[key] ELSE default

RECURSIVE AddTrailerLines(_, _)
\* nsfw.py:51-56  every line with a colon after its first character sets a key
AddTrailerLines(ls, trailers) ==
    IF ls = << >> THEN trailers
    ELSE LET line == ls[1]
             idx == FindColon(line)
             rest == SubSeq(ls, 2, Len(ls))
         IN IF idx > 0
            THEN AddTrailerLines(rest,
                     (LowerText(Strip(SubSeq(line, 1, idx))) :>
                          Strip(SubSeq(line, idx + 2, Len(line)))) @@ trailers)
            ELSE AddTrailerLines(rest, trailers)

RECURSIVE ParseFrom(_, _, _, _)
\* nsfw.py:36-60  the while loop from offset on
ParseFrom(b, offset, messages, trailers) ==
    LET out == [messages |-> messages, trailers |-> trailers] IN
    IF ~(offset < Len(b)) THEN out
    ELSE IF ~HeaderFits(b, offset) THEN out
    ELSE LET flags == b[offset + 1]
             length == UnpackBE32(b, offset)
             start == offset + 5
         IN IF ~FrameFits(b, start, length) THEN out
            ELSE LET data == SubSeq(b, start + 1, start + length) IN
                 IF flags = 128
                 THEN ParseFrom(b, start + length, messages,
                                AddTrailerLines(SplitCRLF(Utf8Decode(data)), trailers))
                 ELSE ParseFrom(b, start + length, Append(messages, data), trailers)

\* nsfw.py:30-60
_parse_grpc_web_response(b) == ParseFrom(b, 0, << >>, << >>)

\* "grpc-status", "grpc-message" and "0"
GrpcStatusKey == << 103, 114, 112, 99, 45, 115, 116, 97, 116, 117, 115 >>
GrpcMessageKey == << 103, 114, 112, 99, 45, 109, 101, 115, 115, 97, 103, 101 >>
ZeroText == << 48 >>

IsDigit(c) == c \in 48..57

RECURSIVE DigitsValue(_)
DigitsValue(text) ==
    IF text = << >> THEN 0
    ELSE 10 * DigitsValue(SubSeq(text, 1, Len(text) - 1)) + (text[Len(text)] - 48)

\* int(text) accepts a sign followed by decimal digits
IntValid(text) ==
    LET digits == IF text # << >> /\ text[1] \in {43, 45} THEN SubSeq(text, 2, Len(text)) ELSE text
    IN digits # << >> /\ \A k \in 1..Len(digits) : IsDigit(digits[k])

IntValue(text) ==
    IF text[1] = 45 THEN 0 - DigitsValue(SubSeq(text, 2, Len(text)))
    ELSE IF text[1] = 43 THEN DigitsValue(SubSeq(text, 2, Len(text)))
    ELSE DigitsValue(text)

IsHex(c) == c \in (48..57) \cup (65..70) \cup (97..102)
HexValue(c) == IF c \in 48..57 THEN c - 48 ELSE IF c \in 65..70 THEN c - 55 ELSE c - 87

RECURSIVE unquote(_)
\* urllib.parse.unquote: %XY becomes the byte XY, decoded as UTF-8 with
\* errors="replace"; anything else is kept
unquote(text) ==
    IF text = << >> THEN text
    ELSE IF text[1] = 37 /\ Len(text) >= 3 /\ IsHex(text[2]) /\ IsHex(text[3])
         THEN Utf8Decode(<< 16 * HexValue(text[2]) + HexValue(text[3]) >>)
                  \o unquote(SubSeq(text, 4, Len(text)))
         ELSE << text[1] >> \o unquote(SubSeq(text, 2, Len(text)))

\* nsfw.py:63-67  (code, message, ok), or the ValueError of int()
_get_grpc_status(trailers) ==
    LET raw == Get(trailers, GrpcStatusKey, ZeroText) IN
    IF ~IntValid(raw)
    THEN [raised |-> "ValueError", code |-> 0, message |-> << >>, ok |-> FALSE]
    ELSE [raised |-> "", code |-> IntValue(raw),
          message |-> unquote(Get(trailers, GrpcMessageKey, << >>)),
          ok |-> IntValue(raw) = 0]

(***************************************************************************)
(* The buffers the codec is applied to. codec_in records how a buffer was  *)
(* put together, so that what the decoder returns can be compared with     *)
(* what went in.                                                           *)
(***************************************************************************)
RECURSIVE SeqsUpTo(_, _)
\* the sequences over S of length at most n
SeqsUpTo(S, n) ==
    IF n = 0 THEN {<< >>}
    ELSE LET shorter == SeqsUpTo(S, n - 1) IN
         shorter \cup {Append(s, x) : s \in shorter, x \in S}

\* payload bytes: low, high and the two delimiters the decoder looks at
PayloadBytes == {0, 1, 128, 255}
\* a payload whose length needs two bytes
LongPayload == [k \in 1..258 |-> 0]
BytePayloads == SeqsUpTo(PayloadBytes, MaxPayloadLen) \cup {LongPayload}

\* a frame as a server writes it: flag, length, data (data shorter than 256)
WireFrame(flags, data) == << flags, 0, 0, 0, Len(data) >> \o data

\* "a:1"
PairText == << 97, 58, 49 >>
FrameChoices == {[flags |-> f, data |-> d] : f \in {0, 1, 128}, d \in {<< >>, << 7 >>, PairText}}

RECURSIVE WireOf(_)
WireOf(frames) ==
    IF frames = << >> THEN << >>
    ELSE WireFrame(frames[1].flags, frames[1].data) \o WireOf(SubSeq(frames, 2, Len(frames)))

RawBuffers == SeqsUpTo({0, 1, 128}, MaxRawLen)

\* "ok" and "a%20b", which unquotes to "a b"
StatusChoices ==
    { [present |-> FALSE, raw |-> << >>, code |-> 0, valid |-> TRUE],
      [present |-> TRUE, raw |-> << 48 >>, code |-> 0, valid |-> TRUE],
      [present |-> TRUE, raw |-> << 55 >>, code |-> 7, valid |-> TRUE],
      [present |-> TRUE, raw |-> << 49, 50 >>, code |-> 12, valid |-> TRUE],
      [present |-> TRUE, raw |-> << 120 >>, code |-> 0, valid |-> FALSE] }
MessageChoices ==
    { [present |-> FALSE, raw |-> << >>, text |-> << >>],
      [present |-> TRUE, raw |-> << 111, 107 >>, text |-> << 111, 107 >>],
      [present |-> TRUE, raw |-> << 97, 37, 50, 48, 98 >>, text |-> << 97, 32, 98 >>] }
NoTrailer == [status |-> CHOOSE s \in StatusChoices : ~s.present,
              message |-> CHOOSE m \in MessageChoices : ~m.present,
              upper |-> FALSE, space |-> FALSE]
TrailerChoices ==
    [status : StatusChoices, message : MessageChoices, upper : BOOLEAN, space : BOOLEAN]

Upper(c) == IF c \in 97..122 THEN c - 32 ELSE c
\* one "key: value" line, the key in upper case and the space as chosen
TrailerLine(key, value, tr) ==
    (IF tr.upper THEN [k \in 1..Len(key) |-> Upper(key[k])] ELSE key)
        \o << 58 >> \o (IF tr.space THEN << 32 >> ELSE << >>) \o value
TrailerText(tr) ==
    LET st == TrailerLine(GrpcStatusKey, tr.status.raw, tr)
        msg == TrailerLine(GrpcMessageKey, tr.message.raw, tr)
    IN IF tr.status.present /\ tr.message.present THEN st \o << 13, 10 >> \o msg
       ELSE IF tr.status.present THEN st
       ELSE IF tr.message.present THEN msg
       ELSE << >>

CodecInput(kind, data, frames, cut, tr) ==
    [kind |-> kind, data |-> data, frames |-> frames, cut |-> cut, trailer |-> tr]

\* _encode_grpc_web_payload(P)
EncodePayload ==
    /\ cpc = "start"
    /\ \E P \in BytePayloads :
         /\ codec_in' = CodecInput("payload", P, << >>, 0, NoTrailer)
         /\ grpc_body' = _encode_grpc_web_payload(P)
    /\ cpc' = "encoded"
    /\ UNCHANGED << parsed, grpc >>
    /\ UNCHANGED << execVars, streamVars, orchVars, normalVars, gateVars, sideVars >>

\* response.content: up to MaxFrames frames, cut anywhere
ReceiveFrames ==
    /\ cpc = "start"
    /\ \E frames \in SeqsUpTo(FrameChoices, MaxFrames) :
         \E cut \in 0..Len(WireOf(frames)) :
           /\ codec_in' = CodecInput("frames", << >>, frames, cut, NoTrailer)
           /\ grpc_body' = SubSeq(WireOf(frames), 1, cut)
    /\ cpc' = "encoded"
    /\ UNCHANGED << parsed, grpc >>
    /\ UNCHANGED << execVars, streamVars, orchVars, normalVars, gateVars, sideVars >>

\* response.content: one trailer frame
ReceiveTrailer ==
    /\ cpc = "start"
    /\ \E tr \in TrailerChoices :
         /\ codec_in' = CodecInput("trailer", << >>, << >>, 0, tr)
         /\ grpc_body' = WireFrame(128, TrailerText(tr))
    /\ cpc' = "encoded"
    /\ UNCHANGED << parsed, grpc >>
    /\ UNCHANGED << execVars, streamVars, orchVars, normalVars, gateVars, sideVars >>

\* response.content: any bytes
ReceiveRaw ==
    /\ cpc = "start"
    /\ \E b \in RawBuffers :
         /\ codec_in' = CodecInput("raw", b, << >>, 0, NoTrailer)
         /\ grpc_body' = b
    /\ cpc' = "encoded"
    /\ UNCHANGED << parsed, grpc >>
    /\ UNCHANGED << execVars, streamVars, orchVars, normalVars, gateVars, sideVars >>

\* nsfw.py:125  _parse_grpc_web_response(response.content)
ParseResponse ==
    /\ cpc = "encoded"
    /\ parsed' = _parse_grpc_web_response(grpc_body)
    /\ cpc' = "parsed"
    /\ UNCHANGED << codec_in, grpc_body, grpc >>
    /\ UNCHANGED << execVars, streamVars, orchVars, normalVars, gateVars, sideVars >>

\* nsfw.py:126  _get_grpc_status(trailers)
GetStatus ==
    /\ cpc = "parsed"
    /\ grpc' = _get_grpc_status(parsed.trailers)
    /\ cpc' = "done"
    /\ UNCHANGED << codec_in, grpc_body, parsed >>
    /\ UNCHANGED << execVars, streamVars, orchVars, normalVars, gateVars, sideVars >>

CodecInit ==
    /\ ExecIdle
    /\ SideIdle
    /\ stream = FALSE
    /\ StreamIdle
    /\ OrchIdle
    /\ NormalIdle
    /\ GateIdle
    /\ cpc = "start"
    /\ codec_in = << >> /\ grpc_body = << >> /\ parsed = << >> /\ grpc = << >>

CodecNext ==
    EncodePayload \/ ReceiveFrames \/ ReceiveTrailer \/ ReceiveRaw \/ ParseResponse \/ GetStatus

SpecCodec == CodecInit /\ [][CodecNext]_vars

\* the codec has produced a buffer from an input of this kind
Encoded(kind) == cpc \in {"encoded", "parsed", "done"} /\ codec_in.kind = kind
\* the decoder has returned for an input of this kind
Decoded(kind) == cpc \in {"parsed", "done"} /\ codec_in.kind = kind

\* C17: for every payload P, the empty one included, the encoded form is the
\* byte 0x00, the length of P as four big-endian bytes, then P; and decoding
\* it returns the message list [P] and no trailer.
C17_RoundTrip ==
    /\ Encoded("payload") =>
         LET P == codec_in.data IN
         /\ Len(grpc_body) = 5 + Len(P)
         /\ grpc_body[1] = 0
         /\ \A k \in 2..5 : grpc_body[k] \in 0..255
         /\ grpc_body[2] * 16777216 + grpc_body[3] * 65536
                + grpc_body[4] * 256 + grpc_body[5] = Len(P)
         /\ SubSeq(grpc_body, 6, Len(grpc_body)) = P
    /\ Decoded("payload") =>
         /\ parsed.messages = << codec_in.data >>
         /\ DOMAIN parsed.trailers = {}

\* a payload of 258 bytes went through: its length bytes are 0, 0, 1, 2
C17_Witness ==
    /\ Decoded("payload")
    /\ codec_in.data = LongPayload
    /\ SubSeq(grpc_body, 1, 5) = << 0, 0, 0, 1, 2 >>
    /\ parsed.messages = << LongPayload >>

FrameSize(f) == 5 + Len(f.data)

RECURSIVE CompleteFrames(_, _)
\* the leading frames that lie wholly within the first cut bytes
CompleteFrames(frames, cut) ==
    IF frames = << >> \/ FrameSize(frames[1]) > cut THEN << >>
    ELSE << frames[1] >>
             \o CompleteFrames(SubSeq(frames, 2, Len(frames)), cut - FrameSize(frames[1]))

IsDataFrame(f) == f.flags # 128
DataOf(frames) ==
    LET ds == SelectSeq(frames, IsDataFrame) IN [k \in 1..Len(ds) |-> ds[k].data]
\* the only trailer data of FrameChoices with a colon is "a:1"
TrailersOf(frames) ==
    IF \E k \in 1..Len(frames) : frames[k].flags = 128 /\ frames[k].data = PairText
    THEN (<< 97 >> :> << 49 >>) ELSE << >>

RECURSIVE SizeOfMessages(_)
SizeOfMessages(messages) ==
    IF messages = << >> THEN 0
    ELSE 5 + Len(messages[1]) + SizeOfMessages(SubSeq(messages, 2, Len(messages)))

\* C18: the decoder returns for every buffer; from a buffer cut anywhere it
\* returns the data of every complete data frame before the cut, unchanged
\* and in order, the trailers of every complete trailer frame, and nothing
\* of the truncated tail.
C18_TruncatedTailDropped ==
    /\ Decoded("frames") =>
         LET whole == CompleteFrames(codec_in.frames, codec_in.cut) IN
         /\ parsed.messages = DataOf(whole)
         /\ parsed.trailers = TrailersOf(whole)
    /\ Decoded("raw") =>
         /\ SizeOfMessages(parsed.messages) <= Len(grpc_body)
         /\ Len(grpc_body) < 5 => parsed.messages = << >> /\ DOMAIN parsed.trailers = {}

\* two frames were received, the second one cut short: only the first is returned
C18_Witness ==
    /\ Decoded("frames")
    /\ Len(codec_in.frames) = 2
    /\ codec_in.frames[1] = [flags |-> 0, data |-> << 7 >>]
    /\ codec_in.frames[2].flags = 0
    /\ codec_in.cut > FrameSize(codec_in.frames[1]) + 5
    /\ codec_in.cut < Len(WireOf(codec_in.frames))
    /\ parsed.messages = << << 7 >> >>

\* "grpc-status: 7" and "grpc-status: 0\r\ngrpc-message: ok"
StatusSevenText == << 103, 114, 112, 99, 45, 115, 116, 97, 116, 117, 115, 58, 32, 55 >>
StatusOkText ==
    << 103, 114, 112, 99, 45, 115, 116, 97, 116, 117, 115, 58, 32, 48, 13, 10,
       103, 114, 112, 99, 45, 109, 101, 115, 115, 97, 103, 101, 58, 32, 111, 107 >>

\* C19: whatever the case of the trailer keys, the code is the integer of
\* grpc-status, 0 when the key is absent, the message is the percent-decoded
\* grpc-message, and ok is true exactly when the code is 0 (a grpc-status
\* that is no integer raises ValueError); "grpc-status: 7" gives (7, "", false)
\* and grpc-status 0 with grpc-message ok gives (0, "ok", true).
C19_StatusExtraction ==
    /\ (cpc = "done" /\ codec_in.kind = "trailer") =>
         LET tr == codec_in.trailer IN
         IF tr.status.valid
         THEN /\ grpc.raised = ""
              /\ grpc.code = tr.status.code
              /\ grpc.message = tr.message.text
              /\ grpc.ok <=> (tr.status.code = 0)
         ELSE grpc.raised = "ValueError"
    /\ (cpc = "done" /\ grpc_body = WireFrame(128, StatusSevenText)) =>
         grpc = [raised |-> "", code |-> 7, message |-> << >>, ok |-> FALSE]
    /\ (cpc = "done" /\ grpc_body = WireFrame(128, StatusOkText)) =>
         grpc = [raised |-> "", code |-> 0, message |-> << 111, 107 >>, ok |-> TRUE]

\* GRPC-STATUS:7 in upper case was read as code 7, not ok
C19_Witness ==
    /\ cpc = "done"
    /\ codec_in.kind = "trailer"
    /\ codec_in.trailer.upper
    /\ codec_in.trailer.status.code = 7
    /\ grpc.code = 7
    /\ ~grpc.ok

(***************************************************************************)
(* Admission gate of chat_completions (chat.py:22-107). The event loop     *)
(* runs a handler without interruption up to its first await, so lines     *)
(* 59-74 are one step: Semaphore.acquire does not suspend when the value   *)
(* is positive.                                                            *)
(***************************************************************************)
\* chat requests of a run, and configuration reloads
NumRequests == 3
MaxResets == 2

ChatRequests == 1..NumRequests
\* max_request_concurrency is missing from the configuration
NotConfigured == -1
\* chat.py:30  the default of global_config.get
DefaultMaxConcurrency == 50
Configs == {NotConfigured, 0, 1, 2}

\* chat.py:30  setting.global_config.get("max_request_concurrency", 50)
MaxConcurrency(cfg) == IF cfg = NotConfigured THEN DefaultMaxConcurrency ELSE cfg

\* chat.py:26-33  the semaphore is created on first use after a reset
_get_chat_semaphore ==
    IF chat_semaphore = NoSemaphore
    THEN [id |-> resets + 1,
          value |-> MaxConcurrency(max_request_concurrency),
          max |-> MaxConcurrency(max_request_concurrency)]
    ELSE chat_semaphore

\* a gate that never finds itself full
GateFull_Never(sem) == FALSE

\* asyncio.Semaphore.locked(): no slot is free (nothing ever waits, see Arrive)
Locked(sem) == sem.value = 0

\* chat.py:60  sem.locked() and sem._value == 0
GateFull(sem) == Locked(sem) /\ sem.value = 0

NotArrived == [pc |-> "idle", sem |-> 0, max |-> 0, holding |-> 0, status |-> 0, releases |-> 0]

\* the requests inside "async with sem" of semaphore number id
Holders(id) == {r \in ChatRequests : chat[r].pc = "holding" /\ chat[r].sem = id}

\* chat.py:59-74  a request arrives: 429 at once when the gate is full,
\* otherwise it takes a slot; acquire would wait on a value of 0. Requests
\* are numbered in their order of arrival.
Arrive(r) ==
    /\ chat[r].pc = "idle"
    /\ \A q \in 1..(r - 1) : chat[q].pc # "idle"
    /\ LET sem == _get_chat_semaphore
           me == [NotArrived EXCEPT !.sem = sem.id, !.max = sem.max,
                                    !.holding = Cardinality(Holders(sem.id))]
       IN IF GateFull(sem)
          THEN /\ chat' = [chat EXCEPT ![r] = [me EXCEPT !.pc = "rejected", !.status = 429]]
               /\ chat_semaphore' = sem
          ELSE IF sem.value > 0
          THEN /\ chat' = [chat EXCEPT ![r] = [me EXCEPT !.pc = "holding"]]
               /\ chat_semaphore' = [sem EXCEPT !.value = @ - 1]
          ELSE /\ chat' = [chat EXCEPT ![r] = [me EXCEPT !.pc = "waiting"]]
               /\ chat_semaphore' = sem
    /\ UNCHANGED << max_request_concurrency, resets >>
    /\ UNCHANGED << execVars, streamVars, orchVars, normalVars, codecVars, sideVars >>

\* how the handler leaves "async with sem": with the result or an exception
\* (chat.py:107, 109-148), or with the StreamingResponse whose body is
\* produced after the handler returned (94-102)
LeaveWays == {"finished", "streaming"}

\* chat.py:74-148  the handler leaves "async with sem", with the result, the
\* StreamingResponse or an exception: the semaphore it entered is released
Leave(r) ==
    /\ chat[r].pc = "holding"
    /\ \E way \in LeaveWays :
         chat' = [chat EXCEPT ![r].pc = IF way = "streaming" THEN "streaming" ELSE "left",
                              ![r].releases = @ + 1]
    /\ chat_semaphore' =
           IF chat_semaphore.id = chat[r].sem
           THEN [chat_semaphore EXCEPT !.value = @ + 1]
           ELSE chat_semaphore
    /\ UNCHANGED << max_request_concurrency, resets >>
    /\ UNCHANGED << execVars, streamVars, orchVars, normalVars, codecVars, sideVars >>

\* chat.py:85-92  the body of the StreamingResponse is exhausted, or the
\* client went away: stream_wrapper ends
BodyEnd(r) ==
    /\ chat[r].pc = "streaming"
    /\ chat' = [chat EXCEPT ![r].pc = "left"]
    /\ UNCHANGED << chat_semaphore, max_request_concurrency, resets >>
    /\ UNCHANGED << execVars, streamVars, orchVars, normalVars, codecVars, sideVars >>

\* chat.py:36-39  a configuration reload sets the limit and drops the semaphore
reset_chat_semaphore ==
    /\ resets < MaxResets
    /\ max_request_concurrency' \in Configs
    /\ chat_semaphore' = NoSemaphore
    /\ resets' = resets + 1
    /\ UNCHANGED chat
    /\ UNCHANGED << execVars, streamVars, orchVars, normalVars, codecVars, sideVars >>

GateInit ==
    /\ ExecIdle
    /\ SideIdle
    /\ stream = FALSE
    /\ StreamIdle
    /\ OrchIdle
    /\ NormalIdle
    /\ CodecIdle
    /\ chat_semaphore = NoSemaphore
    /\ max_request_concurrency \in Configs
    /\ chat = [r \in ChatRequests |-> NotArrived]
    /\ resets = 0

GateNext ==
    \/ \E r \in ChatRequests : Arrive(r)
    \/ \E r \in ChatRequests : Leave(r)
    \/ \E r \in ChatRequests : BodyEnd(r)
    \/ reset_chat_semaphore

SpecGate == GateInit /\ [][GateNext]_vars

\* C20: the requests holding a semaphore never outnumber the limit it was
\* created with, and while the configuration is not reloaded the requests
\* holding the gate never outnumber max_request_concurrency; a request is
\* rejected, with status 429, exactly when it arrives at a gate whose slots
\* are all held, and no request ever waits for the gate.
C20_AdmissionGate ==
    /\ \A r \in ChatRequests :
         chat[r].pc = "holding" => Cardinality(Holders(chat[r].sem)) <= chat[r].max
    /\ resets = 0 =>
         Cardinality({r \in ChatRequests : chat[r].pc = "holding"})
             <= MaxConcurrency(max_request_concurrency)
    /\ \A r \in ChatRequests :
         /\ chat[r].pc # "waiting"
         /\ chat[r].pc = "rejected" => chat[r].status = 429 /\ chat[r].holding = chat[r].max
         /\ chat[r].pc \in {"holding", "streaming", "left"} => chat[r].holding < chat[r].max

\* with a limit of 2, two requests hold the gate and the third was rejected
C20_Witness ==
    /\ resets = 0
    /\ max_request_concurrency = 2
    /\ Cardinality(Holders(1)) = 2
    /\ \E r \in ChatRequests : chat[r].pc = "rejected" /\ chat[r].status = 429

(***************************************************************************)
(* GrokClient._upload (client.py:166-188): one upload_limited coroutine    *)
(* per image reference, run together by asyncio.gather under the upload    *)
(* semaphore, then the results are collected in the order of the input.    *)
(***************************************************************************)
\* longest list of image references
MaxUrls == 3

UrlNames == {"a", "b"}
\* slots of the upload semaphore (max_upload_concurrency)
UploadSlots == {1, 2}
\* what ImageUploadManager.upload does: it returns (id, uri), returns an
\* empty id, raises, or returns something that is no pair
UploadResults == {"ok", "noid", "raised", "other"}

FileId(url) == << "id", url >>
FileUri(url) == << "uri", url >>
Pending == [pc |-> "pending", result |-> ""]

\* gather that lets the first exception through
ReturnExceptions_Off == FALSE

\* client.py:176  asyncio.gather(..., return_exceptions=True)
ReturnExceptions == TRUE

RECURSIVE CollectFrom(_, _)
\* client.py:178-188  zip(urls, results), from position k on, onto out
CollectFrom(k, out) ==
    IF k > Len(upload_urls) THEN out
    ELSE IF uploads[k].result = "ok"
         THEN CollectFrom(k + 1, [ids |-> Append(out.ids, FileId(upload_urls[k])),
                                  uris |-> Append(out.uris, FileUri(upload_urls[k]))])
         ELSE CollectFrom(k + 1, out)

\* client.py:173  async with the semaphore: an upload takes a free slot
UploadStart(k) ==
    /\ upc \in {"gathering", "raised"}
    /\ uploads[k].pc = "pending"
    /\ upload_sem > 0
    /\ upload_sem' = upload_sem - 1
    /\ uploads' = [uploads EXCEPT ![k].pc = "running"]
    /\ UNCHANGED << upc, upload_urls, finished, upload_out >>
    /\ UNCHANGED uploadRest

\* client.py:173-176  an upload ends and gives its slot back; gather keeps an
\* exception as that upload's result
UploadFinish(k, result) ==
    /\ upc \in {"gathering", "raised"}
    /\ uploads[k].pc = "running"
    /\ upload_sem' = upload_sem + 1
    /\ uploads' = [uploads EXCEPT ![k] = [pc |-> "done", result |-> result]]
    /\ finished' = Append(finished, k)
    /\ upc' = IF result = "raised" /\ ~ReturnExceptions THEN "raised" ELSE upc
    /\ UNCHANGED << upload_urls, upload_out >>
    /\ UNCHANGED uploadRest

\* client.py:169-170, 176-188  gather returns when every upload is done (at
\* once for no reference) and the results are collected
UploadReturn ==
    /\ upc = "gathering"
    /\ \A k \in 1..Len(upload_urls) : uploads[k].pc = "done"
    /\ upload_out' = CollectFrom(1, NoUploadResult)
    /\ upc' = "returned"
    /\ UNCHANGED << upload_urls, uploads, upload_sem, finished >>
    /\ UNCHANGED uploadRest

UploadInit ==
    /\ ExecIdle
    /\ stream = FALSE
    /\ StreamIdle
    /\ OrchIdle
    /\ NormalIdle
    /\ CodecIdle
    /\ GateIdle
    /\ ImageIdle
    /\ TaskIdle
    /\ LateIdle
    /\ upc = "gathering"
    /\ upload_urls \in SeqsUpTo(UrlNames, MaxUrls)
    /\ uploads = [k \in 1..Len(upload_urls) |-> Pending]
    /\ upload_sem \in UploadSlots
    /\ finished = << >>
    /\ upload_out = NoUploadResult

UploadNext ==
    \/ \E k \in 1..Len(upload_urls) : UploadStart(k)
    \/ \E k \in 1..Len(upload_urls) : \E result \in UploadResults : UploadFinish(k, result)
    \/ UploadReturn

SpecUpload == UploadInit /\ [][UploadNext]_vars

\* the uploads that returned a file id
Successful == {k \in 1..Len(upload_urls) : uploads[k].result = "ok"}
\* the n-th successful upload, counted in the order of the references
NthSuccessful(n) ==
    CHOOSE k \in Successful : Cardinality({j \in Successful : j <= k}) = n

\* C21: whatever uploads fail, by raising or by returning no file id, _upload
\* does not raise; it returns once every upload is done, and the id list and
\* the uri list have one entry per successful upload, in the order of the
\* input references.
C21_UploadIsolation ==
    /\ upc # "raised"
    /\ upc = "returned" =>
         /\ \A k \in 1..Len(upload_urls) : uploads[k].pc = "done"
         /\ Len(upload_out.ids) = Len(upload_out.uris)
         /\ Len(upload_out.ids) = Cardinality(Successful)
         /\ \A n \in 1..Len(upload_out.ids) :
              /\ upload_out.ids[n] = FileId(upload_urls[NthSuccessful(n)])
              /\ upload_out.uris[n] = FileUri(upload_urls[NthSuccessful(n)])

\* of three references the second upload raised and the third finished
\* before the first: the first and the third are returned, in that order
C21_Witness ==
    /\ upc = "returned"
    /\ upload_urls = << "a", "a", "b" >>
    /\ uploads[2].result = "raised"
    /\ finished[1] = 3
    /\ upload_out.ids = << FileId("a"), FileId("b") >>
    /\ Successful = {1, 3}

(***************************************************************************)
(* The image loop of process_stream (processer.py:252-291): the envelope   *)
(* that carries modelResponse in image mode. LineImage stands for the      *)
(* whole loop with one "images" chunk; here every iteration is a step and  *)
(* every yielded chunk is kept, with the image it belongs to and the       *)
(* number of base64 payload bytes it carries.                              *)
(***************************************************************************)
\* most images of one envelope
MaxImages == 2

\* processer.py:271  the step of the sub-chunk loop
SubChunkSize == 8192

\* lengths of the payload of a downloaded image
PayloadSizes == {0, 1, 8192, 8193, 20000}

\* what download_base64 does: it raises, returns nothing, returns a string
\* that starts with "data:", one that does not and has a comma, or one that
\* does not and has none. download_image raises or returns.
ImageChoices ==
    {[empty |-> TRUE, dl |-> "none", n |-> 0]}
        \cup {[empty |-> FALSE, dl |-> d, n |-> 0] : d \in {"raises", "none"}}
        \cup {[empty |-> FALSE, dl |-> d, n |-> n] :
                  d \in {"data_uri", "pair", "bare"}, n \in PayloadSizes}

\* a chunk made by make_chunk: t is its kind, img the image it is about,
\* size its base64 payload bytes, refs the images it refers to
ImageChunk(t, k, size, refs) == [t |-> t, img |-> k, size |-> size, refs |-> refs]

Min(a, b) == IF a < b THEN a ELSE b

RECURSIVE SubChunksFrom(_, _, _)
\* processer.py:271-272  for i in range(0, len(parts[1]), 8192): parts[1][i:i+8192]
SubChunksFrom(k, i, n) ==
    IF i >= n THEN << >>
    ELSE << ImageChunk("sub", k, Min(SubChunkSize, n - i), << k >>) >>
             \o SubChunksFrom(k, i + SubChunkSize, n)

\* processer.py:264-279  the chunks yielded for image k in base64 mode when
\* the download did not raise
Base64Chunks(k, img) ==
    CASE img.dl = "none" -> << ImageChunk("url", k, 0, << k >>) >>
      [] img.dl = "data_uri" -> << ImageChunk("whole", k, img.n, << k >>) >>
      [] img.dl = "bare" -> << ImageChunk("whole", k, img.n, << k >>) >>
      [] img.dl = "pair" ->
           << ImageChunk("open", k, 0, << k >>) >> \o SubChunksFrom(k, 0, img.n)
               \o << ImageChunk("close", k, 0, << k >>) >>

\* processer.py:256-286  one iteration of the loop over generatedImageUrls
ImageStep ==
    /\ ipc = "loop"
    /\ img_k < Len(image_urls)
    /\ LET k == img_k + 1
           img == image_urls[k]
       IN /\ img_k' = k
          /\ IF img.empty
             THEN UNCHANGED << img_content, image_out >>
             ELSE IF image_mode = "base64" /\ img.dl # "raises"
             THEN /\ image_out' = image_out \o Base64Chunks(k, img)
                  /\ UNCHANGED img_content
             ELSE /\ img_content' = Append(img_content, k)
                  /\ UNCHANGED image_out
    /\ UNCHANGED << ipc, image_mode, image_urls >>
    /\ UNCHANGED imageRest

\* processer.py:289-291  the references kept in content, the stop chunk, return
ImagesReturn ==
    /\ ipc = "loop"
    /\ img_k = Len(image_urls)
    /\ image_out' = image_out \o << ImageChunk("content", 0, 0, img_content),
                                    ImageChunk("stop", 0, 0, << >>) >>
    /\ ipc' = "returned"
    /\ UNCHANGED << image_mode, image_urls, img_k, img_content >>
    /\ UNCHANGED imageRest

ImageInit ==
    /\ ExecIdle
    /\ stream = TRUE
    /\ StreamIdle
    /\ OrchIdle
    /\ NormalIdle
    /\ CodecIdle
    /\ GateIdle
    /\ UploadIdle
    /\ TaskIdle
    /\ LateIdle
    /\ ipc = "loop"
    /\ image_mode \in {"url", "base64"}
    /\ image_urls \in SeqsUpTo(ImageChoices, MaxImages)
    /\ img_k = 0
    /\ img_content = << >>
    /\ image_out = << >>

ImageNext == ImageStep \/ ImagesReturn

SpecImage == ImageInit /\ [][ImageNext]_vars

RECURSIVE RefsOf(_)
\* the images the chunks refer to, in the order of emission
RefsOf(chunks) ==
    IF chunks = << >> THEN << >>
    ELSE chunks[1].refs \o RefsOf(SubSeq(chunks, 2, Len(chunks)))

\* C22: within one image envelope the images are emitted in the order the
\* upstream listed them, in url and in base64 mode, also when a download fails.
C22_ImagesInListedOrder ==
    ipc = "returned" =>
        LET refs == RefsOf(image_out) IN
        \A i, j \in 1..Len(refs) : i < j => refs[i] <= refs[j]

\* image k was embedded as base64
Embedded(k) ==
    /\ image_mode = "base64"
    /\ ~image_urls[k].empty
    /\ image_urls[k].dl \in {"data_uri", "pair", "bare"}

ChunksOfImage(k) ==
    LET About(c) == c.img = k IN SelectSeq(image_out, About)

RECURSIVE SizeSum(_)
SizeSum(chunks) ==
    IF chunks = << >> THEN 0 ELSE chunks[1].size + SizeSum(SubSeq(chunks, 2, Len(chunks)))

\* C23: an image embedded as base64, of payload n, is emitted as one opening
\* chunk, ceil(n/8192) sub-chunks of at most 8192 bytes, one closing chunk;
\* no chunk carries more than 8192 bytes of base64 payload.
C23_Base64SubChunks ==
    ipc = "returned" =>
        /\ \A k \in 1..Len(image_urls) :
             Embedded(k) =>
                 LET cs == ChunksOfImage(k)
                     m == (image_urls[k].n + SubChunkSize - 1) \div SubChunkSize
                 IN /\ Len(cs) = m + 2
                    /\ cs[1].t = "open"
                    /\ cs[Len(cs)].t = "close"
                    /\ \A j \in 2..(m + 1) : cs[j].t = "sub" /\ cs[j].size <= SubChunkSize
                    /\ SizeSum(cs) = image_urls[k].n
        /\ \A j \in 1..Len(image_out) : image_out[j].size <= SubChunkSize

\* the attempts of the current call of _retry that reached _request
ExecutorCalls == {k \in 1..Len(attempts) : attempts[k].token # ""}
ModeratedAttempts == {k \in 1..Len(attempts) : attempts[k].err = "CONTENT_MODERATED"}
StatusAttempts ==
    {k \in 1..Len(attempts) : attempts[k].err = "HTTP_ERROR" /\ attempts[k].status \in retry_codes}

\* C24: one call of _retry makes at most MAX_RETRY = 3 attempts, so it invokes
\* _request at most 3 times before it returns or raises; an attempt retried
\* after content moderation and one retried after a retryable status use up
\* the same loop index, and a fourth attempt is never made.
C24_SharedBudgetOfThree ==
    /\ Len(attempts) <= MAX_RETRY
    /\ Cardinality(ExecutorCalls) <= MAX_RETRY
    /\ \A k \in 1..Len(attempts) : attempts[k].i = k - 1
    /\ Cardinality(ModeratedAttempts \cup StatusAttempts) <= MAX_RETRY
    /\ (opc = "attempt" /\ requests >= 1) => Len(attempts) = attempt_i
    /\ (opc = "done" /\ orchOutcome.how = "raise"
           /\ Cardinality(ModeratedAttempts \cup StatusAttempts) = Len(attempts)) =>
          Len(attempts) = MAX_RETRY

\* moderated, then a retryable status, then moderated again: the budget is
\* spent and _retry raises
C24_Witness ==
    /\ opc = "done"
    /\ orchOutcome.how = "raise"
    /\ Len(attempts) = 3
    /\ 1 \in ModeratedAttempts
    /\ 2 \in StatusAttempts
    /\ 3 \in ModeratedAttempts
    /\ Cardinality(ExecutorCalls) = 3

(***************************************************************************)
(* Bookkeeping tasks of the request path (client.py:277, 317, 387-388).    *)
(* The executor is seen from _request: after an attempt it either calls    *)
(* do_request again or hands its outcome back. A task created with         *)
(* asyncio.create_task runs whenever the request path is suspended, and    *)
(* may fail or never end.                                                  *)
(***************************************************************************)
\* calls of do_request in one call of _request
MaxTaskAttempts == 2

\* Detached of a request path that awaits the coroutine instead
Detached_Awaited == FALSE

\* client.py:277, 317, 387, 388  asyncio.create_task(...): nobody keeps or
\* awaits the task
Detached == TRUE

\* a task just created
Launch(name) == [name |-> name, st |-> "pending", awaited |-> ~Detached]

\* the request path is suspended in an await of a task that has not ended
Blocked ==
    \E k \in 1..Len(tasks) : tasks[k].awaited /\ tasks[k].st \in {"pending", "running"}

\* how one call of do_request (client.py:251-301) ends, and whether it got
\* as far as line 277
DoRequestEnds ==
    {[eo |-> [how |-> "return", via |-> "result", r |-> Value("SUCCESS", 1)], ok200 |-> TRUE],
     [eo |-> [how |-> "raise", via |-> "raise", r |-> Raise("NETWORK_ERROR", 1)], ok200 |-> FALSE]}
      \cup {[eo |-> [how |-> "return", via |-> "last_result", r |-> Status(st, b, 1)],
             ok200 |-> FALSE] : st \in {403, 429}, b \in {"ok", "moderated"}}
      \cup (IF stream THEN {}
            ELSE {[eo |-> [how |-> "return", via |-> "result",
                           r |-> Value("content_moderated", 1)], ok200 |-> TRUE],
                  [eo |-> [how |-> "raise", via |-> "raise", r |-> Raise("API_ERROR", 1)],
                   ok200 |-> TRUE]})

\* the executor may call do_request again after this outcome
MayRetry(eo) == eo.how = "raise" \/ eo.r.kind = "status"

\* client.py:251-301  one call of do_request; line 277 creates the
\* reset_failure task once the upstream answered 200
TaskAttempt ==
    /\ rpc = "attempt"
    /\ ~Blocked
    /\ \E e \in DoRequestEnds : \E again \in BOOLEAN :
         /\ again => (MayRetry(e.eo) /\ tattempts + 1 < MaxTaskAttempts)
         /\ tasks' = IF e.ok200 THEN Append(tasks, Launch("reset_failure")) ELSE tasks
         /\ tres' = e.eo
         /\ rpc' = IF again THEN "attempt" ELSE "done"
    /\ tattempts' = tattempts + 1
    /\ UNCHANGED tout
    /\ UNCHANGED taskRest

\* client.py:303-323, 387-388  _request after the executor: _handle_error
\* creates record_failure and apply_cooldown and raises, the success path
\* creates _update_limits (check_limits) and returns
TaskRequestEnd ==
    /\ rpc = "done"
    /\ ~Blocked
    /\ tout' = RequestResult(tres)
    /\ tasks' = IF tres.how = "raise" THEN tasks
                ELSE IF tres.r.kind = "status"
                THEN tasks \o << Launch("record_failure"), Launch("apply_cooldown") >>
                ELSE IF tres.r.val = "content_moderated" THEN tasks
                ELSE Append(tasks, Launch("check_limits"))
    /\ rpc' = "finished"
    /\ UNCHANGED << tattempts, tres >>
    /\ UNCHANGED taskRest

\* the event loop starts a task
TaskRun(k) ==
    /\ tasks[k].st = "pending"
    /\ tasks' = [tasks EXCEPT ![k].st = "running"]
    /\ UNCHANGED << rpc, tattempts, tres, tout >>
    /\ UNCHANGED taskRest

\* a task ends, with or without an exception; the exception of an awaited
\* coroutine would be raised in the request path (client.py:398-401 catches
\* the one of check_limits)
TaskEnd(k, how) ==
    /\ tasks[k].st = "running"
    /\ tasks' = [tasks EXCEPT ![k].st = how]
    /\ IF tasks[k].awaited /\ how = "failed" /\ tasks[k].name # "check_limits"
       THEN /\ rpc' = "finished"
            /\ tout' = [how |-> "raise", err |-> "TASK_ERROR", status |-> 0, id |-> 0]
       ELSE UNCHANGED << rpc, tout >>
    /\ UNCHANGED << tattempts, tres >>
    /\ UNCHANGED taskRest

TaskInit ==
    /\ ExecIdle
    /\ stream \in BOOLEAN
    /\ StreamIdle
    /\ OrchIdle
    /\ NormalIdle
    /\ CodecIdle
    /\ GateIdle
    /\ UploadIdle
    /\ ImageIdle
    /\ LateIdle
    /\ rpc = "attempt"
    /\ tattempts = 0
    /\ tasks = << >>
    /\ tres = [how |-> "none", via |-> "", r |-> None]
    /\ tout = NoOutcome

TaskNext ==
    \/ TaskAttempt
    \/ TaskRequestEnd
    \/ \E k \in 1..Len(tasks) : TaskRun(k)
    \/ \E k \in 1..Len(tasks) : \E how \in {"done", "failed"} : TaskEnd(k, how)

SpecTasks == TaskInit /\ [][TaskNext]_vars

\* C25: whatever the bookkeeping tasks do, the request path can always take
\* its next step, so it never waits for a task; and what the caller receives
\* is the result or the error that follows from the outcome of the executor
\* alone, also when a task has failed or has not ended.
C25_BookkeepingDetached ==
    /\ rpc \in {"attempt", "done"} => ENABLED (TaskAttempt \/ TaskRequestEnd)
    /\ rpc = "finished" => tout = RequestResult(tres)

\* the request returned its result while reset_failure had failed and
\* check_limits had not started
C25_Witness ==
    /\ rpc = "finished"
    /\ tout.how \in {"result", "stream"}
    /\ Len(tasks) = 2
    /\ tasks[1].name = "reset_failure" /\ tasks[1].st = "failed"
    /\ tasks[2].name = "check_limits" /\ tasks[2].st = "pending"

(***************************************************************************)
(* Claim about thinking content with show_thinking off                     *)
(***************************************************************************)
FromThinking(c) == c.t = "chunk" /\ c.thinking

\* C26: with show_thinking off the streaming engine emits no chunk whose
\* content comes from an envelope flagged isThinking, no opening or closing
\* thinking marker and no video progress line, in every mode of the stream,
\* image mode included.
C26_ThinkingNeverShown ==
    ~show_thinking =>
        \A i \in DOMAIN callerOut :
            /\ ~FromThinking(callerOut[i])
            /\ ~IsOpen(callerOut[i])
            /\ ~IsClose(callerOut[i])
            /\ ~IsProgress(callerOut[i])

(***************************************************************************)
(* Claim about lines the engine cannot process                             *)
(***************************************************************************)
\* the line does not parse, or processing it raised an exception that is not
\* a GrokApiException
Unprocessable(env) == env.kind \in {"malformed", "raises"}

\* C27: a line that fails to parse, or whose processing raises a non-business
\* exception, produces no chunk and does not end the stream, and leaves the
\* state as it was: the engine is in image mode only when a line that was
\* processed through carried imageAttachmentInfo, so that later lines are
\* processed as if the line had not been there.
C27_BadLineHasNoEffect ==
    /\ \A i \in DOMAIN engineOut :
          engineOut[i].line \in DOMAIN lines => ~Unprocessable(lines[engineOut[i].line])
    /\ is_image =>
          \E i \in DOMAIN lines : ~Unprocessable(lines[i]) /\ lines[i].imageInfo

(***************************************************************************)
(* Claim about the lines process_normal reads                              *)
(***************************************************************************)
UsableAt == {i \in DOMAIN normal_lines : normal_lines[i] \in ReturningKinds}

\* C28: process_normal returns the result built from the first envelope that
\* carries a model response or a video URL and reads no later line; it raises
\* NO_RESPONSE when the lines are used up without such an envelope; a line
\* that fails to parse is skipped and does not end the call.
C28_NormalFirstUsableEnvelope ==
    /\ UsableAt \subseteq {Len(normal_lines)}
    /\ UsableAt # {} => npc # "running"
    /\ npc = "returned" => UsableAt = {Len(normal_lines)}
    /\ normalOutcome = "NO_RESPONSE" =>
          /\ UsableAt = {}
          /\ \A i \in DOMAIN normal_lines : normal_lines[i] \in SkippedKinds \cup {"malformed"}
    /\ \A i \in DOMAIN normal_lines :
          normal_lines[i] = "malformed" =>
              ~(i = Len(normal_lines) /\ npc = "raised" /\ normalOutcome = "JSON_ERROR")

(***************************************************************************)
(* Claims about the proxy and the backoff of async_request_with_retry      *)
(***************************************************************************)
\* the attempt about to be made is the first one of its outer iteration
FirstOfOuter == pc = "attempt" /\ (calls = 0 \/ lastAttempt.outer # outer_retry)

\* C29: an attempt uses a proxy forced afresh exactly when the inner 403
\* counter of its outer iteration is above 0 and rotation is on, otherwise the
\* configured proxy. The counter is 0 at the first attempt of every outer
\* iteration, so that attempt uses the configured proxy, and when every attempt
\* answers 403 under the default policy each outer iteration forces 5
\* refreshes: its attempts number 6, of which all but the first refresh.
C29_ProxyRefreshOn403Retry ==
    /\ calls > 0 =>
          /\ lastAttempt.proxy = "force_refresh" <=> (lastAttempt.inner > 0 /\ Rotation)
          /\ lastAttempt.proxy = "get_proxy" <=> ~(lastAttempt.inner > 0 /\ Rotation)
    /\ FirstOfOuter => retry_403_count = 0
    /\ (calls > 0 /\ pc = "attempt" /\ ~FirstOfOuter) =>
          /\ retry_403_count = lastAttempt.inner + 1
          /\ Rotation
    /\ (DefaultPolicy /\ Rotation /\ Only("status", 403)) =>
          /\ lastAttempt.inner <= DefaultMax403Retries
          /\ calls = lastAttempt.outer * (DefaultMax403Retries + 1) + lastAttempt.inner + 1
          /\ (FirstOfOuter \/ Done) => lastAttempt.inner = DefaultMax403Retries

C29_Witness ==
    /\ DefaultPolicy /\ Rotation /\ Only("status", 403)
    /\ FirstOfOuter
    /\ outer_retry = 2
    /\ lastAttempt.outer = 1
    /\ lastAttempt.inner = 5
    /\ lastAttempt.proxy = "force_refresh"
    /\ calls = 12

RetryableOnly ==
    /\ seen # {}
    /\ \A t \in seen : t.kind = "status" /\ t.status_code # 403 /\ t.status_code \in retry_codes

\* C30: when every attempt returns a retryable status other than 403, one
\* invocation makes exactly max_outer_retry + 1 attempts; it sleeps
\* (outer_retry + 1) * 0.1 after each attempt but the last (durations in tenths
\* of a second: 1, 2, 3 under the default policy), does not sleep after the
\* last one, and returns the outcome of the last attempt.
C30_LinearBackoff ==
    RetryableOnly =>
        /\ calls = lastAttempt.outer + 1
        /\ calls <= max_outer_retry + 1
        /\ ~Done => /\ calls <= max_outer_retry
                    /\ sleeps = calls
                    /\ sleptSince
                    /\ lastSleep = lastAttempt.outer + 1
        /\ Done => /\ calls = max_outer_retry + 1
                   /\ sleeps = max_outer_retry
                   /\ ~sleptSince
                   /\ lastSleep = max_outer_retry
                   /\ Exhausted
                   /\ execOutcome.r = lastAttempt.result
                   /\ execOutcome.r.id = calls

C30_Witness ==
    /\ RetryableOnly
    /\ DefaultPolicy
    /\ pc = "done"
    /\ calls = 4
    /\ sleeps = 3
    /\ lastSleep = 3
    /\ ~sleptSince
    /\ execOutcome.r.status_code = 429

(***************************************************************************)
(* Claim about a 403 the executor hands back to _request                   *)
(***************************************************************************)
\* tasks of that name created so far
Created(name) == Cardinality({k \in DOMAIN tasks : tasks[k].name = name})

\* the executor returned a structured 403 outcome
Terminal403 == tres.how = "return" /\ tres.r.kind = "status" /\ tres.r.status_code = 403

\* C31: when the executor returns a structured 403 outcome for the main call,
\* _request raises one HTTP error carrying status 403 (the one whose message
\* reports the blocked IP), whatever the body says; record_failure and
\* apply_cooldown are started once each for the credential, and not before
\* the executor has returned; and the error is one that _retry neither
\* retries nor treats as moderated, so no further attempt follows.
C31_Terminal403 ==
    /\ (Terminal403 /\ rpc = "finished") =>
          /\ tout.how = "raise"
          /\ tout.err = "HTTP_ERROR"
          /\ tout.status = 403
          /\ Created("record_failure") = 1
          /\ Created("apply_cooldown") = 1
          /\ ~OrchRetryable(tout)
    /\ (Terminal403 /\ rpc # "finished") =>
          /\ Created("record_failure") = 0
          /\ Created("apply_cooldown") = 0
          /\ tout = NoOutcome

C31_Witness ==
    /\ Terminal403
    /\ tres.r.body = "moderated"
    /\ rpc = "finished"
    /\ tattempts = MaxTaskAttempts
    /\ tout.err = "HTTP_ERROR"
    /\ Created("record_failure") = 1

(***************************************************************************)
(* Claim about image mode                                                  *)
(***************************************************************************)
\* lines of the running engine that reached processer.py:245 with
\* imageAttachmentInfo
ImageMarkers == {i \in DOMAIN lines : lines[i].kind \in {"resp", "raises"} /\ lines[i].imageInfo}

\* the chunks the engine emitted while it processed line j
ChunksOfLine(j) == SelectSeq(engineOut, LAMBDA c : c.line = j)

\* the envelope of line j was processed in image mode
InImageMode(j) == lines[j].kind = "resp" /\ \E i \in ImageMarkers : i <= j

\* C32: image mode is a latch that ends the stream. is_image holds exactly
\* from the first envelope with image-attachment info on; from then on the
\* token of every envelope is emitted as it is, in one chunk without thinking
\* marker or header wrapping, also when it is tagged as filtered or as
\* thinking; and the first envelope with a model response makes the engine
\* emit the images and then a stop chunk and read no further line.
C32_ImageModeLatch ==
    /\ is_image <=> ImageMarkers # {}
    /\ \A j \in DOMAIN lines :
          InImageMode(j) =>
              IF lines[j].modelResponse
              THEN /\ j = Len(lines)
                   /\ spc = "returned"
                   /\ Len(ChunksOfLine(j)) = 2
                   /\ ChunksOfLine(j)[1].what = "images"
                   /\ ChunksOfLine(j)[2] = [StopChunk EXCEPT !.line = j]
                   /\ engineOut[Len(engineOut)] = ChunksOfLine(j)[2]
              ELSE IF lines[j].tok # "empty"
                   THEN /\ Len(ChunksOfLine(j)) = 1
                        /\ IsToken(ChunksOfLine(j)[1])
                        /\ ~IsOpen(ChunksOfLine(j)[1])
                        /\ ~IsClose(ChunksOfLine(j)[1])
                        /\ ~ChunksOfLine(j)[1].header
                        /\ ChunksOfLine(j)[1].finish = ""
                   ELSE ChunksOfLine(j) = << >>

\* image mode entered, then a thinking token and a filtered header token
\* emitted as they are, then the model response ending the stream
C32_Witness ==
    /\ Len(lines) = 4
    /\ lines[1] = ImageEnv(TRUE, FALSE, "text")
    /\ lines[2] = Thinking
    /\ lines[3] = TextEnv(FALSE, TRUE, TRUE)
    /\ lines[4] = ImageEnv(FALSE, TRUE, "empty")
    /\ ~show_thinking
    /\ Len(engineOut) = 5
    /\ spc = "returned"

(***************************************************************************)
(* Concurrent calls of GrokClient._retry up to the proactive enabling      *)
(* (client.py:71-82). The event loop runs one coroutine at a time and      *)
(* switches only at an await that suspends.                                *)
(***************************************************************************)
\* calls of _retry in progress at the same time
NumRetries == 2

\* everything outside the proactive enabling
lateRest == << execVars, streamVars, normalVars, codecVars, gateVars, uploadVars, imageVars,
               taskVars, enableVars, sessionVars >>
orchLocals == << attempt_i, force_token, last_err, opc, requests, attempts, orchOutcome >>

\* client.py:75-79  get_token returns credential t to call r; the test of
\* line 78 and, if it passes, the call of _auto_enable_nsfw follow without a
\* suspension; the call then waits for the upstream (nsfw.py:109)
RetryGetToken(r, t) ==
    /\ retries[r].pc = "get_token"
    /\ IF Proactive(t)
       THEN /\ retries' = [retries EXCEPT ![r] = [pc |-> "enabling", token |-> t]]
            /\ proactive_calls' = Append(proactive_calls, t)
       ELSE /\ retries' = [retries EXCEPT ![r] = [pc |-> "upload", token |-> t]]
            /\ UNCHANGED proactive_calls
    /\ UNCHANGED << auto_nsfw, nsfw_enabled_tokens, orchLocals >>
    /\ UNCHANGED lateRest

\* client.py:79-82  _auto_enable_nsfw returns to call r, which adds its
\* credential to the set and goes on to _upload
RetryEnabled(r) ==
    /\ retries[r].pc = "enabling"
    /\ nsfw_enabled_tokens' = nsfw_enabled_tokens \cup {retries[r].token}
    /\ retries' = [retries EXCEPT ![r].pc = "upload"]
    /\ UNCHANGED << auto_nsfw, proactive_calls, orchLocals >>
    /\ UNCHANGED lateRest

ProactiveInit ==
    /\ ExecIdle
    /\ stream = FALSE
    /\ StreamIdle
    /\ NormalIdle
    /\ CodecIdle
    /\ GateIdle
    /\ UploadIdle
    /\ ImageIdle
    /\ TaskIdle
    /\ EnableIdle
    /\ SessionIdle
    /\ auto_nsfw \in BOOLEAN
    /\ nsfw_enabled_tokens \in SUBSET Tokens
    /\ attempt_i = 0
    /\ force_token = ""
    /\ last_err = ""
    /\ opc = "idle"
    /\ requests = 0
    /\ attempts = << >>
    /\ orchOutcome = NoOutcome
    /\ retries = [r \in 1..NumRetries |-> [pc |-> "get_token", token |-> ""]]
    /\ proactive_calls = << >>

ProactiveNext ==
    \/ \E r \in 1..NumRetries : \E t \in Tokens : RetryGetToken(r, t)
    \/ \E r \in 1..NumRetries : RetryEnabled(r)

SpecProactive == ProactiveInit /\ [][ProactiveNext]_vars

\* how many times line 79 called _auto_enable_nsfw for credential t
ProactiveCount(t) == Cardinality({k \in DOMAIN proactive_calls : proactive_calls[k] = t})

\* C33: with auto_nsfw on, however concurrent requests that obtain the same
\* credential interleave, the proactive enable call is made at most once for
\* that credential: the membership test and the insertion into the
\* process-wide set act as one atomic step.
C33_ProactiveEnableOnce ==
    \A t \in Tokens : ProactiveCount(t) <= 1

(***************************************************************************)
(* Enabling the permissive mode after a moderated attempt:                 *)
(* GrokClient._retry (client.py:102-108), _auto_enable_nsfw (343-357),     *)
(* enable_nsfw and _call_nsfw_api (nsfw.py:72-143)                         *)
(***************************************************************************)
\* calls of do_request one run of the executor makes at most in the model
MaxNsfwAttempts == 2

\* everything outside the enabling and the loop of _retry
enableRest == << execVars, streamVars, normalVars, codecVars, gateVars, uploadVars, imageVars,
                 taskVars, proactiveVars, sessionVars >>

\* token_manager._extract_sso: a value, None, or an exception
SsoOutcomes == {"sso", "none", "raises"}

\* the grpc-status trailer of a 200 answer: "0", "12", not a number, absent
NsfwTrailers ==
    {[k \in {GrpcStatusKey} |-> v] : v \in {<< 48 >>, << 49, 50 >>, << 120 >>}} \cup {<< >>}

\* what the upstream does on one call of do_request
NsfwAnswers ==
    [t : {"fail"}, status : {0}, trailers : {<< >>}]
      \cup [t : {"resp"}, status : {403, 429}, trailers : {<< >>}]
      \cup [t : {"resp"}, status : {200}, trailers : NsfwTrailers]

\* nsfw.py:111-130  do_request: a status outcome, a mapping with the success
\* flag, or the exception of session.post or of int() in _get_grpc_status
NsfwDoRequest(a, n) ==
    IF a.t = "fail" THEN Raise("RequestsError", n)
    ELSE IF a.status # 200 THEN Status(a.status, "", n)
    ELSE LET st == _get_grpc_status(a.trailers) IN
         IF st.raised # "" THEN Raise(st.raised, n)
         ELSE IF st.ok THEN Value("success", n) ELSE Value("grpc_failed", n)

\* _call_nsfw_api that lets the exception of the executor through
CallNsfwResult_Reraises(eo) ==
    IF eo.how = "raise" THEN [enable |-> "raised", success |-> FALSE]
    ELSE IF eo.r.kind = "status" THEN [enable |-> "mapping", success |-> FALSE]
    ELSE [enable |-> "mapping", success |-> eo.r.val = "success"]

\* nsfw.py:132-143  what _call_nsfw_api returns for the outcome of the executor
CallNsfwResult(eo) ==
    IF eo.how = "raise" THEN [enable |-> "mapping", success |-> FALSE]
    ELSE IF eo.r.kind = "status" THEN [enable |-> "mapping", success |-> FALSE]
    ELSE [enable |-> "mapping", success |-> eo.r.val = "success"]

\* client.py:345-357  how _auto_enable_nsfw ends when enable_nsfw ended as e:
\* the except clause takes every exception
AutoEnable(e) == "returned"

\* client.py:102-104, 345-349  the attempt with credential nsfw_token is
\* flagged as moderated and _auto_enable_nsfw is called
AutoEnableStart ==
    /\ nsfw_pc = "moderated"
    /\ \E sso \in SsoOutcomes :
         IF sso = "sso"
         THEN /\ nsfw_pc' = "request"
              /\ UNCHANGED enable_result
         ELSE /\ nsfw_pc' = "after"
              /\ enable_result' = [enable |-> "not_called", success |-> FALSE,
                                   auto |-> "returned"]
    /\ UNCHANGED << nsfw_token, nsfw_tries, nsfw_exec, orchVars >>
    /\ UNCHANGED enableRest

\* one call of do_request by the executor, which may call it again after a
\* status or an exception
NsfwAttempt ==
    /\ nsfw_pc = "request"
    /\ \E a \in NsfwAnswers : \E again \in BOOLEAN :
         LET eo == [how |-> IF NsfwDoRequest(a, 1).kind = "raise" THEN "raise" ELSE "return",
                    via |-> IF NsfwDoRequest(a, 1).kind = "status" THEN "last_result"
                            ELSE IF NsfwDoRequest(a, 1).kind = "raise" THEN "raise"
                            ELSE "result",
                    r |-> NsfwDoRequest(a, 1)]
         IN /\ again => (MayRetry(eo) /\ nsfw_tries + 1 < MaxNsfwAttempts)
            /\ nsfw_exec' = eo
            /\ nsfw_pc' = IF again THEN "request" ELSE "executed"
    /\ nsfw_tries' = nsfw_tries + 1
    /\ UNCHANGED << nsfw_token, enable_result, orchVars >>
    /\ UNCHANGED enableRest

\* nsfw.py:132-143, client.py:349-357  _call_nsfw_api ends, then enable_nsfw
\* and _auto_enable_nsfw
NsfwReturn ==
    /\ nsfw_pc = "executed"
    /\ LET e == CallNsfwResult(nsfw_exec) IN
       enable_result' = [enable |-> e.enable, success |-> e.success,
                         auto |-> AutoEnable(e.enable)]
    /\ nsfw_pc' = "after"
    /\ UNCHANGED << nsfw_token, nsfw_tries, nsfw_exec, orchVars >>
    /\ UNCHANGED enableRest

\* client.py:105-108  the credential is forced and the loop goes on
OrchAfterEnable ==
    /\ nsfw_pc = "after"
    /\ enable_result.auto = "returned"
    /\ force_token' = ForceOnModerated(nsfw_token)
    /\ LET res == [how |-> "raise", err |-> "CONTENT_MODERATED", status |-> 0, id |-> 1]
       IN /\ OrchContinue(res)
          /\ nsfw_pc' = IF NextIndex(res) < MAX_RETRY THEN "retry" ELSE "exhausted"
    /\ UNCHANGED << auto_nsfw, nsfw_enabled_tokens, requests, attempts >>
    /\ UNCHANGED << nsfw_token, nsfw_tries, nsfw_exec, enable_result >>
    /\ UNCHANGED enableRest

\* client.py:71-75  the next attempt takes its credential
OrchRetryAttempt ==
    /\ nsfw_pc = "retry"
    /\ \E t \in Tokens :
         attempts' = Append(attempts, [i |-> attempt_i, token |-> Selected(t), via |-> Via,
                                       err |-> "", status |-> 0])
    /\ force_token' = ""
    /\ nsfw_pc' = "retried"
    /\ UNCHANGED << auto_nsfw, nsfw_enabled_tokens, attempt_i, last_err, opc, requests,
                    orchOutcome >>
    /\ UNCHANGED << nsfw_token, nsfw_tries, nsfw_exec, enable_result >>
    /\ UNCHANGED enableRest

EnableInit ==
    /\ ExecIdle
    /\ stream = FALSE
    /\ StreamIdle
    /\ NormalIdle
    /\ CodecIdle
    /\ GateIdle
    /\ UploadIdle
    /\ ImageIdle
    /\ TaskIdle
    /\ ProactiveIdle
    /\ SessionIdle
    /\ auto_nsfw \in BOOLEAN
    /\ nsfw_enabled_tokens = {}
    /\ attempt_i \in 0..(MAX_RETRY - 1)
    /\ force_token = ""
    /\ last_err = ""
    /\ opc = "attempt"
    /\ requests = 1
    /\ attempts = << >>
    /\ orchOutcome = NoOutcome
    /\ nsfw_pc = "moderated"
    /\ nsfw_token \in Tokens
    /\ nsfw_tries = 0
    /\ nsfw_exec = [how |-> "none", via |-> "", r |-> None]
    /\ enable_result = NoEnableResult

EnableNext ==
    \/ AutoEnableStart
    \/ NsfwAttempt
    \/ NsfwReturn
    \/ OrchAfterEnable
    \/ OrchRetryAttempt

SpecEnable == EnableInit /\ [][EnableNext]_vars

C34_RecoveryAtMostOnce ==
    /\ Len(reissued) <= 1
    /\ Len(enableCalls) <= 1
    /\ Len(reissued) = 1 <=> wphase = "second"
    /\ (eng = 2 /\ spc = "raised") =>
          /\ wphase = "second"
          /\ callerExc = "CONTENT_MODERATED"
          /\ ~ENABLED NsfwRetry

C34_Witness ==
    /\ eng = 2
    /\ spc = "raised"
    /\ Len(reissued) = 1
    /\ callerExc = "CONTENT_MODERATED"
    /\ Len(firstOut) > 0

(***************************************************************************)
(* The transport sessions of one call of GrokClient._request: do_request   *)
(* opens one per attempt (client.py:261)                                   *)
(***************************************************************************)
\* calls of do_request one run of the executor makes at most in the model
MaxSessionAttempts == 2

sessionRest == << execVars, streamVars, orchVars, normalVars, codecVars, gateVars, uploadVars,
                  imageVars, taskVars, proactiveVars, enableVars >>

\* client.py:279-281  the attempt hands its session over to the engine
SessionHeld(u) == u.t = "resp" /\ u.status = 200 /\ stream

\* client.py:262-301  calls of session.close() do_request makes for upstream
\* behaviour u: line 273 for a non-200 answer, 298 when session.post raises,
\* 286 after process_normal, and 292 as well when process_normal raised
SessionCloses(u) ==
    IF u.t = "fail" THEN 1
    ELSE IF u.status # 200 THEN 1
    ELSE IF stream THEN 0
    ELSE IF process_normal(u.body) = "RESULT" THEN 1 ELSE 2

\* client.py:251-301  one call of do_request against upstream behaviour u;
\* the executor may call it again after a status or an exception
SessionAttempt ==
    /\ session_pc = "attempt"
    /\ \E u \in Upstreams : \E again \in BOOLEAN :
         LET r == do_request(u, Len(sessions) + 1) IN
         /\ again => (r.kind \in {"raise", "status"} /\ Len(sessions) + 1 < MaxSessionAttempts)
         /\ sessions' = Append(sessions, [up |-> u, held |-> SessionHeld(u),
                                          by_request |-> SessionCloses(u), by_engine |-> 0])
         /\ session_pc' = IF again THEN "attempt"
                          ELSE IF SessionHeld(u) THEN "streaming" ELSE "ended"
    /\ UNCHANGED stream
    /\ UNCHANGED sessionRest

\* processer.py:381-386  the finally clause of the engine closes the session
\* _request passed to it
SessionEngineEnds ==
    /\ session_pc = "streaming"
    /\ sessions' = [sessions EXCEPT ![Len(sessions)].by_engine = @ + 1]
    /\ session_pc' = "ended"
    /\ UNCHANGED stream
    /\ UNCHANGED sessionRest

SessionInit ==
    /\ max_outer_retry = DefaultMaxOuterRetry
    /\ max_403_retries = DefaultMax403Retries
    /\ use_proxy_pool_for_403 = TRUE
    /\ proxy_pool_enabled = FALSE
    /\ stream \in BOOLEAN
    /\ pc = "idle"
    /\ outer_retry = 0
    /\ retry_403_count = 0
    /\ last_result = None
    /\ calls = 0
    /\ sleeps = 0
    /\ lastSleep = 0
    /\ sleptSince = FALSE
    /\ lastAttempt = NoAttempt
    /\ seen = {}
    /\ execOutcome = [how |-> "none", via |-> "", r |-> None]
    /\ reqOutcome = NoOutcome
    /\ StreamIdle
    /\ OrchIdle
    /\ NormalIdle
    /\ CodecIdle
    /\ GateIdle
    /\ UploadIdle
    /\ ImageIdle
    /\ TaskIdle
    /\ ProactiveIdle
    /\ EnableIdle
    /\ session_pc = "attempt"
    /\ sessions = << >>

SessionNext ==
    \/ SessionAttempt
    \/ SessionEngineEnds

SpecSession == SessionInit /\ [][SessionNext]_vars

\* C36: every session opened by an attempt of the main call is closed
\* exactly once: by do_request when the attempt returns a non-200 outcome,
\* raises, or completes a non-streaming response (also when process_normal
\* raises), and by the streaming engine, not by do_request, when a
\* streaming attempt succeeds.
C36_SessionClosedOnce ==
    \A k \in DOMAIN sessions :
        /\ sessions[k].by_request = (IF sessions[k].held THEN 0 ELSE 1)
        /\ sessions[k].by_engine <= 1
        /\ sessions[k].by_engine = 1 => sessions[k].held
        /\ session_pc = "ended" => sessions[k].by_request + sessions[k].by_engine = 1

(***************************************************************************)
(* Claim about the gate and streaming responses                            *)
(***************************************************************************)
\* admitted requests whose response has not finished
Unfinished == {r \in ChatRequests : chat[r].pc \in {"holding", "streaming"}}

\* C37: the admission bound covers a streaming response for its whole
\* lifetime: while the configuration is not reloaded, the admitted requests
\* whose response (a streaming body included) has not finished never
\* outnumber max_request_concurrency, and the slot of a request is released
\* exactly once, when the request finishes.
C37_GateCoversStreaming ==
    /\ resets = 0 => Cardinality(Unfinished) <= MaxConcurrency(max_request_concurrency)
    /\ \A r \in ChatRequests :
         /\ chat[r].pc \in {"holding", "streaming"} => chat[r].releases = 0
         /\ chat[r].pc = "left" => chat[r].releases = 1
         /\ chat[r].pc \in {"idle", "rejected"} => chat[r].releases = 0

(***************************************************************************)
(* Claim about the order of the caller's stream                            *)
(***************************************************************************)
IsSentinel(c) == c.t = "done"
HasFinish(c) == c.t = "chunk" /\ c.finish \in {"stop", "error"}
IsContent(c) == c.t = "chunk" /\ c.what # "" /\ c.finish = ""

\* C38: in the stream the caller observes, a stream spliced after a
\* mid-stream moderation included, the terminal sentinel occurs at most once
\* and is the last element when it occurs, and no content chunk follows a
\* chunk that carries a finish reason (stop or error).
C38_CallerStreamOrder ==
    \A i \in DOMAIN callerOut :
        /\ IsSentinel(callerOut[i]) => i = Len(callerOut)
        /\ HasFinish(callerOut[i]) =>
              \A j \in DOMAIN callerOut : j > i => ~IsContent(callerOut[j])

C38_Witness ==
    /\ wphase = "second" /\ eng = 2 /\ spc = "returned"
    /\ firstOut # << >> /\ engineOut # << >>
    /\ callerOut = firstOut \o engineOut
    /\ \E i \in DOMAIN firstOut : IsContent(firstOut[i])
    /\ Len(callerOut) >= 4
    /\ HasFinish(callerOut[Len(callerOut) - 1])
    /\ IsSentinel(callerOut[Len(callerOut)])
    /\ IsContent(callerOut[Len(callerOut) - 2])

(***************************************************************************)
(* One inbound request end to end: the attempts of GrokClient._retry       *)
(* (client.py:64-124), each running async_request_with_retry through       *)
(* _request (243-323).  calls counts the invocations of do_request over    *)
(* the whole request; the side calls of an attempt (enable, upload, post)  *)
(* are not main calls and are left to their own specifications.            *)
(***************************************************************************)
\* the retry policies explored: max_outer_retry + max_403_retries is at most
BudgetPolicyBound == 1

\* error codes a GrokApiException reaches the caller of _retry with
TypedErrors == BusinessErrors \cup {"NO_AVAILABLE_TOKEN"}

\* client.py:75  get_token raises before _request is called
BudgetTokenFails ==
    /\ pc = "idle"
    /\ OrchTokenFails

\* client.py:71-90  the credential of this attempt is selected and _request
\* starts a fresh run of async_request_with_retry with it
BudgetAttempt ==
    /\ opc = "attempt"
    /\ pc = "idle"
    /\ \E t \in Tokens :
         /\ t = Selected(t)
         /\ token' = t
         /\ nsfw_enabled_tokens' = IF Proactive(t) THEN nsfw_enabled_tokens \cup {t}
                                   ELSE nsfw_enabled_tokens
         /\ enableCalls' = enableCalls \o EnableProactive(t)
    /\ payload' = "payload"
    /\ pc' = "attempt"
    /\ UNCHANGED << max_outer_retry, max_403_retries, use_proxy_pool_for_403,
                    proxy_pool_enabled, stream, outer_retry, retry_403_count,
                    last_result, calls, sleeps, lastSleep, sleptSince, lastAttempt,
                    seen, execOutcome, reqOutcome >>
    /\ UNCHANGED << auto_nsfw, attempt_i, force_token, last_err, opc, requests, attempts,
                    orchOutcome >>
    /\ UNCHANGED << engineVars, wphase, reissued >>
    /\ UNCHANGED << normalVars, codecVars, gateVars, sideVars >>

\* client.py:90-122  _request returned or raised: _retry returns, goes on to
\* the next attempt, or lets the error out; the locals of the executor run
\* are gone
BudgetResult ==
    /\ opc = "attempt"
    /\ pc = "finished"
    /\ pc' = "idle"
    /\ outer_retry' = 0
    /\ retry_403_count' = 0
    /\ last_result' = None
    /\ sleeps' = 0
    /\ lastSleep' = 0
    /\ sleptSince' = FALSE
    /\ lastAttempt' = NoAttempt
    /\ seen' = {}
    /\ execOutcome' = [how |-> "none", via |-> "", r |-> None]
    /\ reqOutcome' = NoOutcome
    /\ LET res == reqOutcome
           t == token
       IN /\ attempts' = Append(attempts, [i |-> attempt_i, token |-> t, via |-> Via,
                                           err |-> res.err, status |-> res.status])
          /\ IF res.how \in {"result", "stream"}
             THEN /\ orchOutcome' = res
                  /\ opc' = IF stream THEN "streaming" ELSE "done"
                  /\ wphase' = IF stream THEN "first" ELSE wphase
                  /\ force_token' = ""
                  /\ UNCHANGED << attempt_i, last_err, enableCalls >>
             ELSE IF res.err = "CONTENT_MODERATED"
             THEN /\ enableCalls' = enableCalls \o EnableOnModerated(t)
                  /\ force_token' = ForceOnModerated(t)
                  /\ OrchContinue(res)
                  /\ UNCHANGED wphase
             ELSE IF OrchRetryable(res)
             THEN /\ force_token' = ""
                  /\ OrchContinue(res)
                  /\ UNCHANGED << wphase, enableCalls >>
             ELSE /\ orchOutcome' = res
                  /\ last_err' = IF res.err \in TypedErrors THEN res.err ELSE last_err
                  /\ opc' = "done"
                  /\ force_token' = ""
                  /\ UNCHANGED << attempt_i, wphase, enableCalls >>
    /\ UNCHANGED << max_outer_retry, max_403_retries, use_proxy_pool_for_403,
                    proxy_pool_enabled, stream, calls >>
    /\ UNCHANGED << auto_nsfw, nsfw_enabled_tokens, requests >>
    /\ UNCHANGED << engineVars, token, payload, reissued >>
    /\ UNCHANGED << normalVars, codecVars, gateVars, sideVars >>

BudgetInit ==
    /\ max_outer_retry \in 0..BudgetPolicyBound
    /\ max_403_retries \in 0..BudgetPolicyBound
    /\ max_outer_retry + max_403_retries <= BudgetPolicyBound
    /\ use_proxy_pool_for_403 = TRUE
    /\ proxy_pool_enabled = TRUE
    /\ stream \in BOOLEAN
    /\ pc = "idle"
    /\ outer_retry = 0
    /\ retry_403_count = 0
    /\ last_result = None
    /\ calls = 0
    /\ sleeps = 0
    /\ lastSleep = 0
    /\ sleptSince = FALSE
    /\ lastAttempt = NoAttempt
    /\ seen = {}
    /\ execOutcome = [how |-> "none", via |-> "", r |-> None]
    /\ reqOutcome = NoOutcome
    /\ StreamIdle
    /\ auto_nsfw = FALSE
    /\ nsfw_enabled_tokens = {}
    /\ attempt_i = 0
    /\ force_token = ""
    /\ last_err = ""
    /\ opc = "attempt"
    /\ requests = 1
    /\ attempts = << >>
    /\ orchOutcome = NoOutcome
    /\ NormalIdle
    /\ CodecIdle
    /\ GateIdle
    /\ SideIdle

BudgetNext ==
    \/ BudgetTokenFails
    \/ BudgetAttempt
    \/ AttemptRaises
    \/ AttemptSucceeds
    \/ Attempt403
    \/ AttemptRetryable
    \/ AttemptNonRetryable
    \/ RequestFinish
    \/ BudgetResult

SpecBudget == BudgetInit /\ [][BudgetNext]_vars

\* the collaborators terminate: every started step is eventually taken
FairSpecBudget == SpecBudget /\ WF_vars(BudgetNext)

\* _retry has returned or raised
BudgetDone == opc \in {"done", "streaming"}

CallBudget == MAX_RETRY * (max_outer_retry + 1) * (max_403_retries + 1)

\* a later call of one executor run carries the credential of the call before
SameCredential ==
    (calls' = calls + 1 /\ lastAttempt # NoAttempt) =>
        /\ lastAttempt'.token = lastAttempt.token
        /\ lastAttempt'.token = token
        /\ token' = token

\* what _retry ends with: a result or a stream, or an error with a code
TypedEnd ==
    BudgetDone =>
        \/ orchOutcome.how \in {"result", "stream"}
        \/ orchOutcome.how = "raise" /\ orchOutcome.err \in TypedErrors

\* what _retry ends with when the transport may raise anything
AnyEnd ==
    BudgetDone =>
        \/ orchOutcome.how \in {"result", "stream"}
        \/ orchOutcome.how = "raise" /\ orchOutcome.err # ""

\* C39 as stated: all calls of one executor run use the credential _request
\* captured; one inbound request makes at most
\* 3 * (max_outer_retry + 1) * (max_403_retries + 1) upstream calls before a
\* stream starts, and always ends, with a result or an error that has a code.
C39_BoundedTypedTermination ==
    /\ [][SameCredential]_vars
    /\ [](calls <= CallBudget)
    /\ <>BudgetDone
    /\ []TypedEnd

\* C39, amended: as stated, except that the error the request ends with is a
\* GrokApiException with a code or the exception session.post raised, which
\* do_request, the executor, _request and _retry pass on as it is.
C39_BoundedTermination ==
    /\ [][SameCredential]_vars
    /\ [](calls <= CallBudget)
    /\ <>BudgetDone
    /\ []AnyEnd

C39_Witness ==
    /\ BudgetDone
    /\ max_outer_retry + max_403_retries > 0
    /\ calls = CallBudget
    /\ \E i, j \in DOMAIN attempts : attempts[i].token # attempts[j].token
    /\ Len(attempts) = MAX_RETRY
    /\ orchOutcome.how = "raise" /\ orchOutcome.err = "HTTP_ERROR"

====
